---------------------------- MODULE Spec2Model ----------------------------
(***************************************************************************)
(* Model of scry: the mana base calculator (calculator/simple.rs,          *)
(* calculator/cmc_weighted.rs, deck/types.rs, deck/builder.rs) and the     *)
(* rule-based synergy detector (synergy/detector.rs, synergy/types.rs,     *)
(* input/decklist.rs), the pip-intensity analysis (calculator/analyzer.rs) *)
(* and the curve analyzer with its bridge to the calculators               *)
(* (curve/analyzer.rs, curve/types.rs, curve/mana_bridge.rs).              *)
(*                                                                         *)
(* f64 quantities are carried as exact fractions [num, den]; a fraction    *)
(* with den = 0 stands for NaN (the only NaN the calculators can produce   *)
(* is 0.0 / 0.0).  A HashMap<Color, u32> is a function whose domain is the *)
(* set of keys; every read in the source is get(..).unwrap_or(0) or        *)
(* values().sum(), so an absent key and a key holding 0 behave alike.      *)
(*                                                                         *)
(* Of the synergy analysis the model keeps the themes, the edges, the      *)
(* orphan and hub cards and, as fractions, the percentage, synergy_density *)
(* and theme_coverage; keywords, observations, strength and                *)
(* theme_coherence are left out.                                           *)
(* Oracle texts are sequences of lines of words, and a HashMap is iterated *)
(* in an arbitrary order of its keys.                                      *)
(***************************************************************************)
EXTENDS Integers, Sequences, FiniteSets, TLC

VARIABLES
    phase,       \* mana command: "new" | "built" | "calculated";
                 \* synergy command: "new" | "parsing" | "hydrated" | "analyzed"
                 \* curve command: .. "hydrated" | "curve_analyzed" | "calculated"
                 \* free functions: "new" | "returned"
                 \* card cache: "new" | "cache"
    deck,        \* deck::types::Deck, the calculator input
    algorithm,   \* deck::types::Algorithm handed to get_calculator
    mana_base,   \* deck::types::ManaBase returned by calculate; NoManaBase before
    deck_list,   \* input::DeckList, the decklist of the synergy command
    min_theme_cards, \* RuleBasedDetector.min_theme_cards of the detector used
    matrix,      \* synergy::types::SynergyMatrix returned by analyze
    analysis,    \* curve::types::CurveAnalysis returned by CurveAnalyzer::analyze
    call,        \* the arguments of the last call of a free function
    returned,    \* what that call returned
    cache_file,  \* card_cache.json: normalized key -> CacheEntry; None if absent
    cache_data,  \* CardCache.data.entries of the client's cache; None before new()
    cache_sets,  \* the set calls made on that CardCache: normalized key -> CacheEntry
    now          \* SystemTime::now(), in hours

vars == <<phase, deck, algorithm, mana_base, deck_list, min_theme_cards, matrix,
          analysis, call, returned, cache_file, cache_data, cache_sets, now>>

-----------------------------------------------------------------------------
(* Bounds of the explored input space *)

MaxColors == 3        \* longest deck.colors list explored
MaxPips == 2          \* largest per-colour mana symbol count explored
MaxColorlessPips == 1 \* largest Colorless symbol count explored
MaxIntensity == 1     \* largest per-colour pip_intensity explored
MaxLands == 4         \* largest target_lands explored
MaxDualCount == 2     \* largest count of a dual land group explored
MaxEntries == 4       \* longest decklist explored
MaxConfiguredMin == 2 \* largest min_theme_cards given to with_min_theme_cards
MaxTypeCount == 8     \* largest creature type count given to detect_tribal_themes
MaxTotalCreatures == 50 \* largest total_creatures given to detect_tribal_themes
MaxCurveEntries == 3  \* longest decklist given to the curve analysis
MaxQuantity == 2      \* largest quantity of an entry of such a decklist
MaxCurveLands == 3    \* largest target_lands given to calculate_mana_base
MaxWarnedIntensity == 5 \* largest pip_intensity of the decks of the pip analysis
MaxClock == 36        \* the hour at which the clock of the card cache stops

-----------------------------------------------------------------------------
(* deck/types.rs *)

Color == {"W", "U", "B", "R", "G", "C"}

\* The colours the exhaustive exploration puts in deck.colors and in duals.
ExploredColors == {"W", "U", "B"}

Max(a, b) == IF a >= b THEN a ELSE b

SeqToSet(s) == {s[i] : i \in DOMAIN s}

RECURSIVE SumFn(_, _)
SumFn(f, S) ==
    IF S = {} THEN 0
    ELSE LET x == CHOOSE y \in S : TRUE IN f[x] + SumFn(f, S \ {x})

\* HashMap::get(k).copied().unwrap_or(0)
Get(m, k) == IF k \in DOMAIN m THEN m[k] ELSE 0

\* Number of positions of sequence s that hold x.
Occurrences(s, x) == Cardinality({i \in DOMAIN s : s[i] = x})

DualLand(colors, count) == [colors |-> colors, count |-> count]

default_lands == 24   \* Format::Standard

\* Deck::new(format)
NewDeck ==
    [target_lands |-> default_lands,
     colors |-> << >>,
     mana_symbols |-> << >>,
     dual_lands |-> << >>,
     pip_intensity |-> << >>]

\* ManaBase::new()
NewManaBase ==
    [basics |-> << >>,
     duals |-> << >>,
     recommendations |-> << >>,
     color_percentages |-> << >>,
     panicked |-> FALSE]

NoManaBase == [none |-> TRUE]

total_mana_symbols(d) == SumFn(d.mana_symbols, DOMAIN d.mana_symbols)

dual_land_count(d) ==
    SumFn([i \in DOMAIN d.dual_lands |-> d.dual_lands[i].count], DOMAIN d.dual_lands)

\* u32::saturating_sub
saturating_sub(a, b) == IF a >= b THEN a - b ELSE 0

basic_land_slots(d) == saturating_sub(d.target_lands, dual_land_count(d))


-----------------------------------------------------------------------------
(* calculator/simple.rs, calculator/cmc_weighted.rs: the shared allocation *)

NaN == [num |-> 0, den |-> 0]

IsNaN(r) == r.den = 0

\* f64::floor followed by `as u32`; the cast sends NaN to 0.
FloorU32(r) == IF IsNaN(r) THEN 0 ELSE r.num \div r.den

\* count - count.floor(), NaN for NaN.
Fractional(r) == IF IsNaN(r) THEN NaN ELSE [num |-> r.num % r.den, den |-> r.den]

\* a < b on two non-NaN fractions
FracLess(a, b) == a.num * b.den < b.num * a.den

\* Variant of dual_sources that credits a dual only to the first colour it lists.
dual_sources_first_color(d) ==
    [c \in {d.dual_lands[i].colors[1] :
                i \in {j \in DOMAIN d.dual_lands : d.dual_lands[j].colors # << >>}} |->
        SumFn([i \in DOMAIN d.dual_lands |->
                  IF d.dual_lands[i].colors # << >> /\ d.dual_lands[i].colors[1] = c
                  THEN d.dual_lands[i].count ELSE 0],
              DOMAIN d.dual_lands)]

\* dual_sources: every dual adds its count to each colour it lists.
dual_sources(d) ==
    [c \in UNION {SeqToSet(d.dual_lands[i].colors) : i \in DOMAIN d.dual_lands} |->
        SumFn([i \in DOMAIN d.dual_lands |->
                  d.dual_lands[i].count * Occurrences(d.dual_lands[i].colors, c)],
              DOMAIN d.dual_lands)]

\* remaining[c] = (percentage * target_lands - dual_contribution).max(0.0),
\* as a numerator over W; f64::max drops a NaN operand, so W = 0 gives 0.
remaining_need(d, w, W) ==
    [c \in SeqToSet(d.colors) |->
        IF W = 0 THEN 0
        ELSE Max(0, w[c] * d.target_lands - Get(dual_sources(d), c) * W)]

total_remaining(d, w, W) == SumFn(remaining_need(d, w, W), SeqToSet(d.colors))

\* TRUE when the scale-down branch is taken (total_remaining >= basic_slots).
ScalesDown(d, w, W) ==
    IF W = 0 THEN 0 >= basic_land_slots(d)
    ELSE total_remaining(d, w, W) >= basic_land_slots(d) * W

\* basic_counts: the fractional basic count of every colour.
basic_counts(d, w, W) ==
    LET rem == remaining_need(d, w, W)
        tot == total_remaining(d, w, W)
        slots == basic_land_slots(d)
    IN  IF ScalesDown(d, w, W)
        THEN [c \in SeqToSet(d.colors) |->
                 IF tot > 0 THEN [num |-> rem[c] * slots, den |-> tot]
                 ELSE [num |-> 0, den |-> 1]]
        ELSE [c \in SeqToSet(d.colors) |->
                 IF W = 0 THEN NaN
                 ELSE [num |-> rem[c] * W + (slots * W - tot) * w[c], den |-> W * W]]

\* Vec::sort_by(|a, b| b.1.partial_cmp(&a.1).unwrap()): stable, descending.
RECURSIVE InsertDesc(_, _)
InsertDesc(x, s) ==
    IF s = << >> THEN <<x>>
    ELSE IF FracLess(Head(s).frac, x.frac) THEN <<x>> \o s
    ELSE <<Head(s)>> \o InsertDesc(x, Tail(s))

RECURSIVE SortDescFrom(_, _)
SortDescFrom(s, acc) ==
    IF s = << >> THEN acc ELSE SortDescFrom(Tail(s), InsertDesc(Head(s), acc))

\* Variant of sort_fractional_parts that leaves equal fractions in the
\* reverse of their order in parts.
sort_fractional_parts_ties_reversed(parts) ==
    SortDescFrom([i \in DOMAIN parts |-> parts[Len(parts) + 1 - i]], << >>)

sort_fractional_parts(parts) == SortDescFrom(parts, << >>)

\* partial_cmp(..).unwrap() panics as soon as two NaN entries are compared.
SortPanics(parts) == Len(parts) >= 2 /\ \E i \in DOMAIN parts : IsNaN(parts[i].frac)

\* Variant of distribute_slots without the `slots_to_add == 0` break.
RECURSIVE distribute_slots_no_break(_, _, _)
distribute_slots_no_break(parts, basics, slots_to_add) ==
    IF parts = << >> THEN basics
    ELSE distribute_slots_no_break(Tail(parts),
                                   [basics EXCEPT ![Head(parts).color] = @ + 1],
                                   slots_to_add)

\* for (color, _) in fractional_parts { if slots_to_add == 0 break; *count += 1 }
RECURSIVE distribute_slots(_, _, _)
distribute_slots(parts, basics, slots_to_add) ==
    IF parts = << >> \/ slots_to_add = 0 THEN basics
    ELSE distribute_slots(Tail(parts),
                          [basics EXCEPT ![Head(parts).color] = @ + 1],
                          slots_to_add - 1)

\* basics.retain(|_, &mut v| v > 0)
retain_positive(basics) == [c \in {k \in DOMAIN basics : basics[k] > 0} |-> basics[c]]

\* The largest remainder rounding of simple.rs:73-101 / cmc_weighted.rs:92-120.
\* colors is deck.colors, counts the basic_counts map, target_total the slots.
largest_remainder(colors, counts, target_total) ==
    LET floored == [c \in SeqToSet(colors) |-> FloorU32(counts[c])]
        rounded_total ==
            SumFn([i \in DOMAIN colors |-> FloorU32(counts[colors[i]])], DOMAIN colors)
        fractional_parts ==
            [i \in DOMAIN colors |->
                [color |-> colors[i], frac |-> Fractional(counts[colors[i]])]]
        slots_to_add == saturating_sub(target_total, rounded_total)
    IN  IF SortPanics(fractional_parts)
        THEN [panicked |-> TRUE, basics |-> << >>]
        ELSE [panicked |-> FALSE,
              basics |-> retain_positive(
                  distribute_slots(sort_fractional_parts(fractional_parts),
                                   floored, slots_to_add))]

\* Steps 2-6 of calculate, given the weights w and their sum W.
allocate(d, w, W) ==
    LET r == largest_remainder(d.colors, basic_counts(d, w, W), basic_land_slots(d))
    IN  [basics |-> r.basics,
         duals |-> d.dual_lands,
         recommendations |-> << >>,
         color_percentages |-> [c \in SeqToSet(d.colors) |-> [num |-> w[c], den |-> W]],
         panicked |-> r.panicked]

\* SimpleCalculator::calculate
SimpleWeights(d) == [c \in SeqToSet(d.colors) |-> Get(d.mana_symbols, c)]

SimpleCalculate(d) ==
    IF total_mana_symbols(d) = 0 \/ d.colors = << >> THEN NewManaBase
    ELSE allocate(d, SimpleWeights(d), total_mana_symbols(d))

\* CmcWeightedCalculator: weighted = count + intensity * 0.5, kept in half units.
CmcWeights(d) ==
    [c \in SeqToSet(d.colors) |-> 2 * Get(d.mana_symbols, c) + Get(d.pip_intensity, c)]

total_weighted(d) == SumFn(CmcWeights(d), SeqToSet(d.colors))

\* One recommendation per entry of deck.colors whose intensity is >= 3; its
\* text is "<colour> has high pip density (<intensity> cards with ..." for
\* every such intensity.
high_pip_density == 3

RECURSIVE cmc_recommendations(_, _)
cmc_recommendations(colors, d) ==
    IF colors = << >> THEN << >>
    ELSE (IF Get(d.pip_intensity, Head(colors)) >= high_pip_density
          THEN <<[color |-> Head(colors),
                  intensity |-> Get(d.pip_intensity, Head(colors)),
                  wording |-> "high"]>>
          ELSE << >>)
         \o cmc_recommendations(Tail(colors), d)

CmcWeightedCalculate(d) ==
    IF total_mana_symbols(d) = 0 \/ d.colors = << >> THEN NewManaBase
    ELSE LET m == allocate(d, CmcWeights(d), total_weighted(d))
         IN  IF m.panicked THEN m
             ELSE [m EXCEPT !.recommendations = cmc_recommendations(d.colors, d)]

\* calculator/algorithms.rs get_calculator(algorithm).calculate(deck)
Algorithm == {"Simple", "CmcWeighted", "Hypergeometric"}

\* Variant of get_calculator that gives Hypergeometric the CMC-weighted calculator.
get_calculator_hypergeometric_weighted(a, d) ==
    IF a = "Simple" THEN SimpleCalculate(d) ELSE CmcWeightedCalculate(d)

get_calculator(a, d) ==
    CASE a = "Simple" -> SimpleCalculate(d)
      [] a = "CmcWeighted" -> CmcWeightedCalculate(d)
      [] a = "Hypergeometric" -> SimpleCalculate(d)

-----------------------------------------------------------------------------
(* Inputs of the mana command *)

RECURSIVE SeqsUpTo(_, _)
SeqsUpTo(S, n) ==
    IF n = 0 THEN {<< >>}
    ELSE LET shorter == SeqsUpTo(S, n - 1)
         IN  shorter \cup {Append(s, x) : s \in {t \in shorter : Len(t) = n - 1}, x \in S}

ColorLists == SeqsUpTo(ExploredColors, MaxColors)

SymbolMaps ==
    {[c \in ExploredColors \cup {"C"} |-> IF c = "C" THEN k ELSE m[c]] :
        m \in [ExploredColors -> 0..MaxPips], k \in 0..MaxColorlessPips}

\* At most one colour of the explored decks is pip-intensive.
IntensityMaps ==
    {[c \in ExploredColors |-> 0]} \cup
    {[c \in ExploredColors |-> IF c = x THEN n ELSE 0] :
        x \in ExploredColors, n \in 1..MaxIntensity}

\* deck.colors runs over every ordering of the explored colours, so one dual
\* pair and one tri-land stand for the others.
DualColorChoices == {<<"W", "U">>, <<"W", "U", "B">>}

DualLists ==
    {<< >>} \cup {<<DualLand(cs, n)>> : cs \in DualColorChoices, n \in 1..MaxDualCount}

LandChoices == 0..MaxLands

\* The decks of the unit tests of calculator/simple.rs.
TestMonoBlue ==
    [target_lands |-> 24, colors |-> <<"U">>,
     mana_symbols |-> [c \in {"U"} |-> 20],
     dual_lands |-> << >>, pip_intensity |-> << >>]

TestTwoColorEven ==
    [target_lands |-> 24, colors |-> <<"U", "B">>,
     mana_symbols |-> [c \in {"U", "B"} |-> 10],
     dual_lands |-> <<DualLand(<<"U", "B">>, 4)>>, pip_intensity |-> << >>]

TestGrixis ==
    [target_lands |-> 24, colors |-> <<"U", "B", "R">>,
     mana_symbols |-> [c \in {"U", "B", "R"} |->
                          IF c = "U" THEN 8 ELSE IF c = "B" THEN 7 ELSE 5],
     dual_lands |-> <<DualLand(<<"U", "B">>, 8)>>, pip_intensity |-> << >>]

TestDualsExceed ==
    [target_lands |-> 24, colors |-> <<"U", "B">>,
     mana_symbols |-> [c \in {"U", "B"} |-> IF c = "U" THEN 12 ELSE 8],
     dual_lands |-> <<DualLand(<<"U", "B">>, 10)>>, pip_intensity |-> << >>]

TestFiveColor ==
    [target_lands |-> 24, colors |-> <<"W", "U", "B", "R", "G">>,
     mana_symbols |-> [c \in {"W", "U", "B", "R", "G"} |-> 4],
     dual_lands |-> <<DualLand(<<"W", "U">>, 2)>>, pip_intensity |-> << >>]

TestDecks == {TestMonoBlue, TestTwoColorEven, TestGrixis, TestDualsExceed, TestFiveColor}

-----------------------------------------------------------------------------
(* api/types.rs, input/decklist.rs, synergy/types.rs *)

\* Option::None
None == [none |-> TRUE]

\* api::Card as the analyses read it (no card_faces).  oracle_text is the text
\* lowercased, as a sequence of lines, each the sequence of its
\* whitespace-separated words (punctuation stays on the word); every reader
\* of the text is case-insensitive.  type_line is the sequence of the words
\* of the type line, in the case the API returns.  mana_cost is the sequence
\* of the {..} symbols of the cost, each the sequence of the parts that '/'
\* separates in it ("{1}{G/W}" is <<<<"1">>, <<"G", "W">>>>).  cmc is a
\* fraction.
Card(name, mana_cost, cmc, type_line, oracle_text, color_identity) ==
    [name |-> name, mana_cost |-> mana_cost, cmc |-> cmc, type_line |-> type_line,
     oracle_text |-> oracle_text, color_identity |-> color_identity]

\* tests::mock_card: mana_cost "{2}{W}", cmc 3.0, color_identity ["W"]
mock_card(name, oracle_text, type_line) ==
    Card(name, <<<<"2">>, <<"W">>>>, [num |-> 3, den |-> 1], type_line, oracle_text, <<"W">>)

\* The DeckSections explored: mainboard() treats Commander as Mainboard and
\* leaves out Sideboard and Maybeboard alike.
ExploredSections == {"Mainboard", "Sideboard"}

DeckEntry(quantity, card_name, card, section) ==
    [quantity |-> quantity, card_name |-> card_name, card |-> card, section |-> section]

\* DeckList::new
NewDeckList == [entries |-> << >>]

\* DeckList::add_entry
add_entry(dl, quantity, card_name, section) ==
    [dl EXCEPT !.entries = Append(@, DeckEntry(quantity, card_name, None, section))]

\* DeckList::mainboard, as the sequence the iterator yields
mainboard(dl) ==
    SelectSeq(dl.entries, LAMBDA e : e.section = "Mainboard" \/ e.section = "Commander")

RECURSIVE SumQuantities(_)
SumQuantities(entries) ==
    IF entries = << >> THEN 0 ELSE Head(entries).quantity + SumQuantities(Tail(entries))

\* DeckList::total_cards
total_cards(dl) == SumQuantities(dl.entries)

\* DeckList::unique_cards
unique_cards(dl) == Len(dl.entries)

\* synergy::types::Theme.  A theme is [kind, arg]; arg is the tribe of
\* Tribal(String), the CounterType of Counters(..), and "" otherwise.
Theme(kind) == [kind |-> kind, arg |-> ""]

Counters(counter_type) == [kind |-> "Counters", arg |-> counter_type]

Tribal(tribe) == [kind |-> "Tribal", arg |-> tribe]

\* Theme::display_name, as the words of the name
display_name(theme) ==
    CASE theme.kind = "Tribal" -> <<theme.arg, "Tribal">>
      [] theme.kind = "Counters" -> <<"+1/+1", "Counters">>
      [] theme.kind = "Blink" -> <<"Blink/Flicker">>
      [] theme.kind = "Draw" -> <<"Card", "Draw">>
      [] theme.kind = "Artifacts" -> <<"Artifacts", "Matter">>
      [] theme.kind = "Enchantments" -> <<"Enchantments", "Matter">>
      [] theme.kind = "Lands" -> <<"Lands", "Matter">>
      [] OTHER -> <<theme.kind>>

\* CardSynergyProfile::new, with the themes and role build_card_profiles sets
CardSynergyProfile(card_name, themes, role) ==
    [card_name |-> card_name, themes |-> themes, role |-> role]

\* ThemeAnalysis; percentage is the fraction card_count / total_cards
ThemeAnalysis(theme, card_count, percentage, enablers, payoffs, support) ==
    [theme |-> theme, card_count |-> card_count, percentage |-> percentage,
     enablers |-> enablers, payoffs |-> payoffs, support |-> support]

\* Vec::dedup: drops an element equal to the one right before it
RECURSIVE dedup(_)
dedup(s) ==
    IF Len(s) <= 1 THEN s
    ELSE IF s[1] = s[2] THEN dedup(Tail(s))
    ELSE <<s[1]>> \o dedup(Tail(s))

\* Variant of all_cards that chains the payoffs before the enablers.
all_cards_payoffs_first(ta) == dedup(ta.payoffs \o ta.enablers \o ta.support)

\* ThemeAnalysis::all_cards
all_cards(ta) == dedup(ta.enablers \o ta.payoffs \o ta.support)

\* SynergyEdge (strength is the constant 0.5)
SynergyEdge(card_a, card_b, relation, theme) ==
    [card_a |-> card_a, card_b |-> card_b, relation |-> relation,
     themes |-> <<theme>>,
     reason |-> <<"Both", "support">> \o display_name(theme) \o <<"theme">>]

\* SynergyMatrix::new; stats holds orphan_cards and hub_cards
NewSynergyMatrix ==
    [total_cards |-> 0, unique_cards |-> 0, detected_themes |-> << >>,
     primary_theme |-> None, card_profiles |-> << >>, edges |-> << >>,
     stats |-> [synergy_density |-> [num |-> 0, den |-> 1],
                theme_coverage |-> [num |-> 0, den |-> 1],
                orphan_cards |-> << >>, hub_cards |-> << >>]]

-----------------------------------------------------------------------------
(* synergy/themes.rs, synergy/keywords.rs: text matching *)

\* A pattern is the sequence of the literal parts that ".*" separates in the
\* regex; a part is the sequence of its space-separated words.  whole marks
\* a \b..\b pattern.  All patterns of THEME_RULES are case-insensitive.
P(parts) == [parts |-> parts, whole |-> FALSE]

W(parts) == [parts |-> parts, whole |-> TRUE]

\* Substring facts about the words of the cards of the model: <<kind, w, s>> says
\* that s occurs in the word w (w # s) as an infix ("in"), as a prefix
\* ("pre"), as a suffix ("suf") or between word boundaries ("word").
WordTable ==
    {<<"in", "creates", "create">>, <<"in", "life.", "life">>,
     <<"in", "token.", "to">>, <<"in", "token.", "token">>,
     <<"in", "tokens", "to">>, <<"in", "tokens", "token">>,
     <<"in", "tokens.", "to">>, <<"in", "tokens.", "token">>,
     <<"pre", "an", "a">>, <<"pre", "and", "a">>,
     <<"pre", "control,", "control">>, <<"pre", "life.", "life">>,
     <<"pre", "one", "on">>, <<"pre", "token.", "to">>,
     <<"pre", "tokens", "to">>, <<"pre", "tokens.", "to">>,
     <<"pre", "tokens.", "tokens">>, <<"pre", "your", "you">>,
     <<"suf", "gain", "in">>, <<"suf", "goblin", "in">>,
     <<"in", "additional", "add">>, <<"in", "card.", "card">>,
     <<"in", "enchantment.", "enchantment">>, <<"in", "life,", "life">>,
     <<"in", "lifelink", "life">>, <<"in", "whenever", "when">>,
     <<"pre", "additional", "a">>, <<"pre", "artifact", "a">>,
     <<"pre", "aura", "a">>, <<"pre", "card.", "card">>,
     <<"pre", "control.", "control">>, <<"pre", "gets", "get">>,
     <<"pre", "life,", "life">>, <<"pre", "lifelink", "life">>}

WordMatch(kind, w, s) == w = s \/ <<kind, w, s>> \in WordTable

\* How the k-th of the n words of a part may sit in a word of the text: a
\* one-word part anywhere in the word, the first word of a longer part at the
\* end of its word, the last at the start, the others as the whole word.
KindOf(k, n, whole) ==
    IF whole THEN "word"
    ELSE IF n = 1 THEN "in"
    ELSE IF k = 1 THEN "suf"
    ELSE IF k = n THEN "pre"
    ELSE "eq"

PartAt(part, line, i, whole) ==
    /\ i + Len(part) - 1 <= Len(line)
    /\ \A k \in 1..Len(part) :
          WordMatch(KindOf(k, Len(part), whole), line[i + k - 1], part[k])

RECURSIVE MatchFrom(_, _, _, _)
MatchFrom(parts, line, start, whole) ==
    IF parts = << >> THEN TRUE
    ELSE \E i \in start..Len(line) :
            /\ PartAt(Head(parts), line, i, whole)
            /\ MatchFrom(Tail(parts), line, i + Len(Head(parts)), whole)

\* Regex::is_match; "." does not match a line break
is_match(pattern, text) ==
    \E l \in DOMAIN text : MatchFrom(pattern.parts, text[l], 1, pattern.whole)

\* str::contains of a phrase, on the lowercased oracle text or on a type line
contains(text, phrase) == is_match(P(<<phrase>>), text)

Count(s, Test(_)) == Cardinality({i \in DOMAIN s : Test(s[i])})

\* str::to_lowercase on the words of the type lines of the catalogue and on
\* the cache keys
to_lowercase(w) ==
    CASE w = "Creature" -> "creature"
      [] w = "Elf" -> "elf"
      [] w = "Goblin" -> "goblin"
      [] w = "Instant" -> "instant"
      [] w = "Sorcery" -> "sorcery"
      [] w = "Enchantment" -> "enchantment"
      [] w = "Land" -> "land"
      [] w = "Swamp" -> "swamp"
      [] w = "Mountain" -> "mountain"
      [] w = "Bird" -> "bird"
      [] w = "Eldrazi" -> "eldrazi"
      [] w = "Artifact" -> "artifact"
      [] w = "Equipment" -> "equipment"
      [] w = "Aura" -> "aura"
      [] w = "Golem" -> "golem"
      [] w = "God" -> "god"
      [] w = "Elf Caller" -> "elf caller"
      [] w = "Goblin Healer" -> "goblin healer"
      [] OTHER -> w

\* Card::all_type_lines().join(" "), lowercased for the (?i) type patterns
lower_type_line(card) == <<[i \in DOMAIN card.type_line |-> to_lowercase(card.type_line[i])]>>

\* THEME_RULES (role_hint is None in every rule)
THEME_RULES == <<
    [theme |-> Theme("Tokens"),
     oracle_patterns |-> <<
         P(<<<<"create">>, <<"token">>>>),
         P(<<<<"token">>, <<"enters">>>>),
         P(<<<<"for", "each">>, <<"token">>>>),
         P(<<<<"tokens", "you", "control">>>>),
         P(<<<<"creature", "tokens">>>>),
         P(<<<<"put">>, <<"token">>>>),
         P(<<<<"tokens", "get">>>>) >>,
     type_patterns |-> << >>,
     min_confidence |-> [num |-> 1, den |-> 10]],
    [theme |-> Counters("PlusOne"),
     oracle_patterns |-> <<
         P(<<<<"+1/+1", "counter">>>>),
         P(<<<<"proliferate">>>>),
         P(<<<<"with">>, <<"counters", "on">>>>),
         P(<<<<"counter", "on", "it">>>>),
         P(<<<<"distribute">>, <<"counters">>>>),
         P(<<<<"move">>, <<"counter">>>>) >>,
     type_patterns |-> << >>,
     min_confidence |-> [num |-> 1, den |-> 10]],
    [theme |-> Theme("Graveyard"),
     oracle_patterns |-> <<
         P(<<<<"from", "your", "graveyard">>>>),
         P(<<<<"in", "your", "graveyard">>>>),
         P(<<<<"return">>, <<"from">>, <<"graveyard">>>>),
         P(<<<<"cards", "in", "your", "graveyard">>>>),
         W(<<<<"flashback">>>>),
         W(<<<<"unearth">>>>),
         W(<<<<"escape">>>>),
         W(<<<<"delve">>>>),
         P(<<<<"exile">>, <<"from", "your", "graveyard">>>>) >>,
     type_patterns |-> << >>,
     min_confidence |-> [num |-> 1, den |-> 10]],
    [theme |-> Theme("Sacrifice"),
     oracle_patterns |-> <<
         P(<<<<"sacrifice", "a">>>>),
         P(<<<<"sacrifice", "another">>>>),
         P(<<<<"when">>, <<"dies">>>>),
         P(<<<<"whenever">>, <<"dies">>>>),
         P(<<<<"sacrifice">>, <<":">>>>),
         P(<<<<"you", "may", "sacrifice">>>>) >>,
     type_patterns |-> << >>,
     min_confidence |-> [num |-> 1, den |-> 10]],
    [theme |-> Theme("Blink"),
     oracle_patterns |-> <<
         P(<<<<"exile">>, <<"return">>, <<"to", "the", "battlefield">>>>),
         P(<<<<"flicker">>>>),
         P(<<<<"exile">>, <<"then", "return">>>>),
         P(<<<<"when">>, <<"enters", "the", "battlefield">>>>),
         P(<<<<"whenever">>, <<"enters", "the", "battlefield">>>>) >>,
     type_patterns |-> << >>,
     min_confidence |-> [num |-> 15, den |-> 100]],
    [theme |-> Theme("Ramp"),
     oracle_patterns |-> <<
         P(<<<<"search", "your", "library", "for">>, <<"land">>>>),
         P(<<<<"add">>, <<"mana">>>>),
         P(<<<<"put">>, <<"land">>, <<"onto", "the", "battlefield">>>>),
         P(<<<<"additional", "land">>>>) >>,
     type_patterns |-> << >>,
     min_confidence |-> [num |-> 1, den |-> 10]],
    [theme |-> Theme("Draw"),
     oracle_patterns |-> <<
         P(<<<<"draw">>, <<"card">>>>),
         P(<<<<"draws">>, <<"card">>>>),
         P(<<<<"whenever", "you", "draw">>>>),
         P(<<<<"for", "each", "card", "you">>>>) >>,
     type_patterns |-> << >>,
     min_confidence |-> [num |-> 1, den |-> 10]],
    [theme |-> Theme("Removal"),
     oracle_patterns |-> <<
         P(<<<<"destroy", "target">>>>),
         P(<<<<"exile", "target">>>>),
         P(<<<<"deals">>, <<"damage", "to">>>>),
         P(<<<<"target", "creature", "gets", "-">>>>),
         P(<<<<"return", "target">>, <<"to">>, <<"owner">>>>) >>,
     type_patterns |-> << >>,
     min_confidence |-> [num |-> 1, den |-> 10]],
    [theme |-> Theme("Lifegain"),
     oracle_patterns |-> <<
         P(<<<<"you", "gain">>, <<"life">>>>),
         P(<<<<"gain">>, <<"life">>>>),
         P(<<<<"whenever", "you", "gain", "life">>>>),
         W(<<<<"lifelink">>>>) >>,
     type_patterns |-> << >>,
     min_confidence |-> [num |-> 1, den |-> 10]],
    [theme |-> Theme("Discard"),
     oracle_patterns |-> <<
         P(<<<<"target">>, <<"discard">>>>),
         P(<<<<"opponent">>, <<"discard">>>>),
         P(<<<<"whenever">>, <<"discard">>>>),
         P(<<<<"discard", "a", "card">>>>),
         W(<<<<"madness">>>>) >>,
     type_patterns |-> << >>,
     min_confidence |-> [num |-> 1, den |-> 10]],
    [theme |-> Theme("Mill"),
     oracle_patterns |-> <<
         P(<<<<"mill">>>>),
         P(<<<<"put">>, <<"cards", "from">>, <<"library", "into">>, <<"graveyard">>>>),
         P(<<<<"cards", "in", "your", "library">>>>) >>,
     type_patterns |-> << >>,
     min_confidence |-> [num |-> 1, den |-> 10]],
    [theme |-> Theme("Reanimator"),
     oracle_patterns |-> <<
         P(<<<<"return">>, <<"creature">>, <<"from">>, <<"graveyard">>, <<"to", "the", "battlefield">>>>),
         P(<<<<"put">>, <<"creature">>, <<"from">>, <<"graveyard", "onto", "the", "battlefield">>>>),
         P(<<<<"reanimate">>>>) >>,
     type_patterns |-> << >>,
     min_confidence |-> [num |-> 1, den |-> 10]],
    [theme |-> Theme("Spellslinger"),
     oracle_patterns |-> <<
         P(<<<<"whenever", "you", "cast", "an", "instant", "or", "sorcery">>>>),
         P(<<<<"instant", "and", "sorcery">>>>),
         P(<<<<"noncreature", "spell">>>>),
         W(<<<<"storm">>>>),
         P(<<<<"copy">>, <<"instant">>>>),
         P(<<<<"copy">>, <<"sorcery">>>>) >>,
     type_patterns |-> << >>,
     min_confidence |-> [num |-> 1, den |-> 10]],
    [theme |-> Theme("Aristocrats"),
     oracle_patterns |-> <<
         P(<<<<"whenever">>, <<"creature">>, <<"dies">>>>),
         P(<<<<"whenever", "another">>, <<"dies">>>>),
         P(<<<<"sacrifice">>, <<"creature">>>>) >>,
     type_patterns |-> << >>,
     min_confidence |-> [num |-> 15, den |-> 100]],
    [theme |-> Theme("Voltron"),
     oracle_patterns |-> <<
         P(<<<<"equipped", "creature">>>>),
         P(<<<<"enchanted", "creature">>>>),
         P(<<<<"commander", "deals", "combat", "damage">>>>) >>,
     type_patterns |-> <<P(<<<<"equipment">>>>), P(<<<<"aura">>>>)>>,
     min_confidence |-> [num |-> 1, den |-> 10]] >>

\* The confidence test of detect_card_themes for one rule: some pattern
\* matches and total_matches / total_patterns >= min_confidence.
rule_matches(rule, card) ==
    LET oracle_matches ==
            Count(rule.oracle_patterns, LAMBDA p : is_match(p, card.oracle_text))
        type_matches ==
            Count(rule.type_patterns, LAMBDA p : is_match(p, lower_type_line(card)))
        total_patterns == Len(rule.oracle_patterns) + Len(rule.type_patterns)
        total_matches == oracle_matches + type_matches
    IN  /\ total_matches > 0
        /\ total_matches * rule.min_confidence.den
               >= rule.min_confidence.num * total_patterns

type_contains(card, word) == contains(<<card.type_line>>, <<word>>)

is_creature(card) == type_contains(card, "Creature")

\* The type-based themes detect_card_themes appends after the rules
\* (is_equipment, is_aura, is_artifact, is_enchantment, is_land)
type_based_themes(card) ==
    LET is(type) == type_contains(card, type)
        pushed(kind, confidence, role_hint) ==
            <<[theme |-> Theme(kind), confidence |-> confidence, role_hint |-> role_hint]>>
        one == [num |-> 1, den |-> 1]
        half == [num |-> 1, den |-> 2]
    IN  (IF is("Equipment") THEN pushed("Equipment", one, "Support") ELSE << >>)
        \o (IF is("Aura") THEN pushed("Auras", one, "Support") ELSE << >>)
        \o (IF is("Artifact") /\ ~is("Equipment")
               /\ contains(card.oracle_text, <<"artifact">>)
            THEN pushed("Artifacts", half, None) ELSE << >>)
        \o (IF is("Enchantment") /\ ~is("Aura")
               /\ contains(card.oracle_text, <<"enchantment">>)
            THEN pushed("Enchantments", half, None) ELSE << >>)
        \o (IF is("Land") /\ contains(card.oracle_text, <<"land">>)
            THEN pushed("Lands", half, None) ELSE << >>)

\* detect_card_themes: the (Theme, confidence, role hint) triples, in the
\* order they are pushed; the confidence of a rule is
\* total_matches / total_patterns.
detect_card_themes(card) ==
    LET matching == SelectSeq(THEME_RULES, LAMBDA rule : rule_matches(rule, card))
        confidence(rule) ==
            [num |-> Count(rule.oracle_patterns, LAMBDA p : is_match(p, card.oracle_text))
                     + Count(rule.type_patterns,
                             LAMBDA p : is_match(p, lower_type_line(card))),
             den |-> Len(rule.oracle_patterns) + Len(rule.type_patterns)]
    IN  [i \in DOMAIN matching |->
            [theme |-> matching[i].theme, confidence |-> confidence(matching[i]),
             role_hint |-> None]]
        \o type_based_themes(card)

\* The role_hint of the first detected theme that has one: the rules carry
\* None, Equipment and Auras carry Support.
first_role_hint(card) ==
    IF type_contains(card, "Equipment") \/ type_contains(card, "Aura")
    THEN "Support" ELSE None

\* Variant of classify_card_role that looks for the Lifegain payoff phrase
\* before anything else.
classify_card_role_payoff_first(card, theme) ==
    IF theme.kind = "Lifegain"
       /\ contains(card.oracle_text, <<"whenever", "you", "gain", "life">>)
    THEN "Payoff" ELSE "Support"

\* classify_card_role
classify_card_role(card, theme) ==
    LET has(phrase) == contains(card.oracle_text, phrase)
    IN  CASE theme.kind = "Tokens" ->
                IF has(<<"create">>) /\ has(<<"token">>) THEN "Enabler"
                ELSE IF has(<<"tokens", "you", "control">>) \/ has(<<"for", "each">>)
                        \/ has(<<"tokens", "get">>) THEN "Payoff"
                ELSE "Support"
          [] theme.kind = "Counters" ->
                IF has(<<"put">>) /\ has(<<"counter">>) THEN "Enabler"
                ELSE IF has(<<"with">>) /\ has(<<"counter">>) THEN "Payoff"
                ELSE "Support"
          [] theme.kind = "Graveyard" ->
                IF has(<<"mill">>) \/ has(<<"discard">>) THEN "Enabler"
                ELSE IF has(<<"from", "your", "graveyard">>) \/ has(<<"flashback">>)
                        \/ has(<<"escape">>) THEN "Payoff"
                ELSE "Support"
          [] theme.kind = "Sacrifice" ->
                IF has(<<"create">>) /\ has(<<"token">>) THEN "Enabler"
                ELSE IF has(<<"when">>) /\ has(<<"dies">>) THEN "Payoff"
                ELSE "Support"
          [] theme.kind = "Lifegain" ->
                IF has(<<"gain">>) /\ has(<<"life">>) THEN "Enabler"
                ELSE IF has(<<"whenever", "you", "gain", "life">>) THEN "Payoff"
                ELSE "Support"
          [] OTHER -> "Support"

\* COMMON_CREATURE_TYPES
COMMON_CREATURE_TYPES ==
    {"Human", "Elf", "Goblin", "Zombie", "Vampire", "Wizard", "Soldier",
     "Knight", "Dragon", "Angel", "Demon", "Beast", "Elemental", "Spirit",
     "Warrior", "Cleric", "Rogue", "Shaman", "Merfolk", "Bird", "Cat",
     "Dinosaur", "Sliver", "Ally", "Eldrazi", "Faerie", "Giant", "Horror",
     "Hydra", "Insect", "Ninja", "Pirate", "Rat", "Samurai", "Serpent",
     "Skeleton", "Spider", "Treefolk", "Werewolf", "Wolf", "Artifact"}

\* The position of the first dash of the type line (0 if there is none); the
\* dash U+2014 of " \u2014 " is written "--".
DashAt(type_line) ==
    IF \E i \in DOMAIN type_line : type_line[i] = "--"
    THEN CHOOSE i \in DOMAIN type_line :
            type_line[i] = "--" /\ \A j \in 1..(i - 1) : type_line[j] # "--"
    ELSE 0

\* extract_creature_types: the recognised subtypes after the first dash;
\* the sorted, deduplicated Vec is read as a set.  The subtypes of the
\* catalogue are capitalised as in COMMON_CREATURE_TYPES.
extract_creature_types(card) ==
    IF ~is_creature(card) \/ DashAt(card.type_line) = 0 THEN {}
    ELSE LET dash == DashAt(card.type_line)
             subtypes == {i \in (dash + 1)..Len(card.type_line) :
                             \A j \in (dash + 1)..i : card.type_line[j] # "--"}
         IN  {card.type_line[i] : i \in subtypes} \cap COMMON_CREATURE_TYPES

-----------------------------------------------------------------------------
(* The card catalogue *)

\* The cards the card API knows, by the name a decklist asks for: three mock
\* creatures in the style of the detector tests, and the five cards of
\* create_token_deck.  Any other name is not found.
CardDatabase ==
    LET card(name, oracle_text, type_line) ==
            name :> mock_card(name, oracle_text, type_line)
    IN  card("Elf Caller",
             <<<<"create", "a", "1/1", "green", "elf", "creature", "token.">>>>,
             <<"Creature", "--", "Elf">>)
     @@ card("Elf Marshal",
             <<<<"creature", "tokens", "you", "control", "get", "+1/+1.">>>>,
             <<"Creature", "--", "Elf">>)
     @@ card("Goblin Healer",
             <<<<"you", "gain", "3", "life.">>>>,
             <<"Creature", "--", "Goblin">>)
     @@ card("Raise the Alarm",
             <<<<"create", "two", "1/1", "white", "soldier", "creature", "tokens.">>>>,
             <<"Instant">>)
     @@ card("Spectral Procession",
             <<<<"create", "three", "1/1", "white", "spirit", "creature", "tokens",
                 "with", "flying.">>>>,
             <<"Sorcery">>)
     @@ card("Lingering Souls",
             <<<<"create", "two", "1/1", "white", "spirit", "creature", "tokens",
                 "with", "flying.">>,
               <<"flashback", "{1}{b}">>>>,
             <<"Sorcery">>)
     @@ card("Intangible Virtue",
             <<<<"creature", "tokens", "you", "control", "get", "+1/+1", "and",
                 "have", "vigilance.">>>>,
             <<"Enchantment">>)
     @@ card("Anointed Procession",
             <<<<"if", "an", "effect", "would", "create", "one", "or", "more",
                 "tokens", "under", "your", "control,", "it", "creates", "twice",
                 "that", "many", "of", "those", "tokens", "instead.">>>>,
             <<"Enchantment">>)

\* The cards the card functions are called with on their own: those of the
\* catalogue and a test card for each of a few type lines and (lowercased)
\* oracle texts.
ExploredCards ==
    LET type_lines ==
            {<<"Artifact">>, <<"Artifact", "--", "Equipment">>, <<"Enchantment">>,
             <<"Enchantment", "--", "Aura">>, <<"Land">>, <<"Artifact", "Land">>,
             <<"Artifact", "Creature", "--", "Golem">>,
             <<"Enchantment", "Creature", "--", "God">>, <<"Creature", "--", "Elf">>,
             <<"Instant">>}
        oracle_texts ==
            {<< >>,
             <<<<"equipped", "creature", "gets", "+2/+0.">>>>,
             <<<<"equipped", "creature", "gets", "+1/+0", "for", "each", "artifact",
                 "you", "control.">>>>,
             <<<<"enchanted", "creature", "gets", "+1/+1", "for", "each",
                 "enchantment", "you", "control.">>>>,
             <<<<"destroy", "target", "artifact", "or", "enchantment.">>>>,
             <<<<"you", "may", "play", "an", "additional", "land", "on", "each",
                 "of", "your", "turns.">>>>,
             <<<<"whenever", "you", "gain", "life,", "draw", "a", "card.">>>>,
             <<<<"you", "gain", "3", "life.">>>>,
             <<<<"lifelink">>>>}
    IN  {CardDatabase[n] : n \in DOMAIN CardDatabase}
        \cup {mock_card("Test Card", oracle_text, type_line) :
                 oracle_text \in oracle_texts, type_line \in type_lines}

\* The card names the explored decklists are written with; the last one is
\* a name the card API does not find.
ExploredNames == {"Elf Caller", "Elf Marshal", "Goblin Healer", "Unknown Card"}

\* The card names in the order of String's Ord (bytewise)
NamesInOrder ==
    <<"Anointed Procession", "Elf Caller", "Elf Marshal", "Goblin Healer",
      "Intangible Virtue", "Lingering Souls", "Raise the Alarm",
      "Spectral Procession", "Unknown Card">>

\* card_a < card_b on Strings
str_lt(a, b) ==
    \E i, j \in DOMAIN NamesInOrder :
        NamesInOrder[i] = a /\ NamesInOrder[j] = b /\ i < j

\* The themes of the triples detect_card_themes returns, which
\* build_card_profiles keeps in the profile of the card
RECURSIVE themes_of(_)
themes_of(triples) ==
    IF triples = << >> THEN << >>
    ELSE <<Head(triples).theme>> \o themes_of(Tail(triples))

\* What the detector's pure functions of one card give on each card of the
\* catalogue (computed once): detect_card_themes, the first role hint,
\* classify_card_role per kind of theme, extract_creature_types, is_creature.
card_facts ==
    LET kinds == {THEME_RULES[r].theme.kind : r \in DOMAIN THEME_RULES}
                    \cup {"Equipment", "Auras", "Artifacts", "Enchantments",
                          "Lands", "Tribal"}
    IN  [card \in {CardDatabase[n] : n \in DOMAIN CardDatabase} |->
            [themes |-> themes_of(detect_card_themes(card)),
             role_hint |-> first_role_hint(card),
             role |-> [kind \in kinds |-> classify_card_role(card, Theme(kind))],
             creature_types |-> extract_creature_types(card),
             is_creature |-> is_creature(card)]]

\* The quantities the explored decklists are written with
Quantities == {1}

\* create_token_deck of the detector tests: four copies of each token card,
\* every entry hydrated, all in the mainboard
create_token_deck ==
    LET names == <<"Raise the Alarm", "Spectral Procession", "Lingering Souls",
                   "Intangible Virtue", "Anointed Procession">>
    IN  [entries |->
            [i \in DOMAIN names |->
                DeckEntry(4, names[i], CardDatabase[names[i]], "Mainboard")]]

\* Every order in which the elements of S can be met
RECURSIVE Perms(_)
Perms(S) ==
    IF S = {} THEN {<< >>}
    ELSE UNION {{<<x>> \o p : p \in Perms(S \ {x})} : x \in S}

\* Stable sort by count, descending: sort_by(|a, b| b.count.cmp(&a.count))
RECURSIVE InsertByCount(_, _, _)
InsertByCount(sorted, x, count) ==
    IF sorted = << >> THEN <<x>>
    ELSE IF count[Head(sorted)] >= count[x]
         THEN <<Head(sorted)>> \o InsertByCount(Tail(sorted), x, count)
         ELSE <<x>> \o sorted

RECURSIVE SortByCountDesc(_, _)
SortByCountDesc(s, count) ==
    IF s = << >> THEN << >>
    ELSE InsertByCount(SortByCountDesc(SubSeq(s, 1, Len(s) - 1), count), s[Len(s)], count)

-----------------------------------------------------------------------------
(* synergy/detector.rs: RuleBasedDetector *)

\* RuleBasedDetector::new
default_min_theme_cards == 5

\* The mainboard entries that carry card data, in decklist order
hydrated_mainboard(dl) == SelectSeq(mainboard(dl), LAMBDA e : e.card # None)

\* Variant of build_card_profiles that also gives every mainboard entry
\* without card data a profile, without themes, under its card_name.
build_card_profiles_all_entries(dl) ==
    LET entries == mainboard(dl)
        last(name) ==
            entries[CHOOSE i \in DOMAIN entries :
                        /\ entries[i].card_name = name
                        /\ \A j \in (i + 1)..Len(entries) : entries[j].card_name # name]
    IN  [name \in {entries[i].card_name : i \in DOMAIN entries} |->
            IF last(name).card = None THEN CardSynergyProfile(name, << >>, None)
            ELSE CardSynergyProfile(name, card_facts[last(name).card].themes,
                                    card_facts[last(name).card].role_hint)]

\* build_card_profiles: a HashMap keyed by card.name; a later entry of the
\* same name replaces the profile of an earlier one.
build_card_profiles(dl) ==
    LET entries == hydrated_mainboard(dl)
        last(name) ==
            entries[CHOOSE i \in DOMAIN entries :
                        /\ entries[i].card.name = name
                        /\ \A j \in (i + 1)..Len(entries) : entries[j].card.name # name]
    IN  [name \in {entries[i].card.name : i \in DOMAIN entries} |->
            CardSynergyProfile(name, card_facts[last(name).card].themes,
                               card_facts[last(name).card].role_hint)]

\* creature_type_counts of aggregate_themes: quantity-weighted
creature_type_counts(dl) ==
    LET entries == SelectSeq(hydrated_mainboard(dl), LAMBDA e : card_facts[e.card].is_creature)
        types == UNION {card_facts[entries[i].card].creature_types : i \in DOMAIN entries}
    IN  [t \in types |->
            SumQuantities(SelectSeq(entries,
                LAMBDA e : t \in card_facts[e.card].creature_types))]

\* total_creatures of aggregate_themes
total_creatures(dl) ==
    SumQuantities(SelectSeq(hydrated_mainboard(dl), LAMBDA e : card_facts[e.card].is_creature))

\* detect_tribal_themes: min_count
tribal_min_count == 8

\* Variant of detect_tribal_themes that looks at the count alone.
detect_tribal_themes_count_only(counts, total, order) ==
    LET over == SelectSeq(order, LAMBDA t : counts[t] >= tribal_min_count)
        sorted == SortByCountDesc(over, counts)
    IN  [i \in DOMAIN sorted |-> [theme |-> Tribal(sorted[i]), count |-> counts[sorted[i]]]]

\* detect_tribal_themes: the types over the threshold (min_percentage is
\* 0.30, and count / total >= 0.30 is 10 * count >= 3 * total), pushed in the
\* order the creature_type_counts HashMap is iterated and then sorted by
\* count.  The percentage of an element is count / total and is left out.
detect_tribal_themes(counts, total, order) ==
    LET over == SelectSeq(order, LAMBDA t :
                    \/ counts[t] >= tribal_min_count
                    \/ (total > 0 /\ counts[t] * 10 >= 3 * total))
        sorted == SortByCountDesc(over, counts)
    IN  [i \in DOMAIN sorted |-> [theme |-> Tribal(sorted[i]), count |-> counts[sorted[i]]]]

\* tribal_cards of aggregate_themes: one name per matching mainboard entry
tribal_cards(dl, tribe_name) ==
    LET entries == SelectSeq(hydrated_mainboard(dl),
                        LAMBDA e : tribe_name \in card_facts[e.card].creature_types)
    IN  [i \in DOMAIN entries |-> entries[i].card.name]

\* theme_cards of aggregate_themes, before the filter.  profile_order is the
\* order in which the profiles HashMap is iterated.
theme_cards(profiles, dl, profile_order) ==
    LET rule_themes == UNION {SeqToSet(profiles[n].themes) : n \in DOMAIN profiles}
        counts == creature_type_counts(dl)
        detected == detect_tribal_themes(counts, total_creatures(dl),
                                         CHOOSE o \in Perms(DOMAIN counts) : TRUE)
        tribal_themes ==
            {theme \in {detected[i].theme : i \in DOMAIN detected} :
                tribal_cards(dl, theme.arg) # << >>}
    IN  [theme \in rule_themes \cup tribal_themes |->
            IF theme \in tribal_themes THEN tribal_cards(dl, theme.arg)
            ELSE SelectSeq(profile_order,
                     LAMBDA n : theme \in SeqToSet(profiles[n].themes))]

\* The ThemeAnalysis aggregate_themes builds for one surviving theme
theme_analysis(profiles, dl, theme, cards) ==
    LET entries == hydrated_mainboard(dl)
        found(card_name) ==
            entries[CHOOSE i \in DOMAIN entries :
                        /\ entries[i].card.name = card_name
                        /\ \A j \in 1..(i - 1) : entries[j].card.name # card_name]
        classified(card_name) ==
            /\ card_name \in DOMAIN profiles
            /\ \E i \in DOMAIN entries : entries[i].card.name = card_name
        role(card_name) == card_facts[found(card_name).card].role[theme.kind]
        with_role(r) ==
            SelectSeq(cards, LAMBDA n : classified(n) /\ role(n) = r)
    IN  ThemeAnalysis(theme, Len(cards),
                      [num |-> Len(cards), den |-> total_cards(dl)],
                      with_role("Enabler"), with_role("Payoff"), with_role("Support"))

\* The keys of theme_cards that pass the min_theme_cards filter
surviving_themes(cards, min_cards) ==
    {theme \in DOMAIN cards : Len(cards[theme]) >= min_cards}

\* Variant of aggregate_themes that leaves the analyses in iteration order.
aggregate_themes_unsorted(profiles, dl, cards, theme_order) ==
    [i \in DOMAIN theme_order |->
        theme_analysis(profiles, dl, theme_order[i], cards[theme_order[i]])]

\* aggregate_themes, from the theme_cards it collects.  theme_order is the
\* order in which the surviving entries come out of the iteration of the
\* theme_cards HashMap.
aggregate_themes(profiles, dl, cards, theme_order) ==
    LET analyses ==
            [i \in DOMAIN theme_order |->
                theme_analysis(profiles, dl, theme_order[i], cards[theme_order[i]])]
    IN  SortByCountDesc(analyses, [a \in SeqToSet(analyses) |-> a.card_count])

\* The index pairs (i, j), i < j <= n, in the order of the nested loops
RECURSIVE PairsFrom(_, _, _)
PairsFrom(i, j, n) ==
    IF i >= n THEN << >>
    ELSE IF j > n THEN PairsFrom(i + 1, i + 2, n)
    ELSE <<<<i, j>>>> \o PairsFrom(i, j + 1, n)

\* The relation build_edges gives the pair (card_a, card_b) of a theme
relation_in(ta, card_a, card_b) ==
    IF card_a \in SeqToSet(ta.enablers) /\ card_b \in SeqToSet(ta.payoffs) THEN "Enables"
    ELSE IF card_a \in SeqToSet(ta.payoffs) /\ card_b \in SeqToSet(ta.enablers)
         THEN "PayoffFor"
    ELSE "Supports"

\* The normalised pair of build_edges
normalized_pair(card_a, card_b) ==
    IF str_lt(card_a, card_b) THEN <<card_a, card_b>> ELSE <<card_b, card_a>>

\* The body of the inner loop of build_edges, without the seen_pairs test
visit_pair_unchecked(ta, card_a, card_b, acc) ==
    [edges |-> Append(acc.edges,
                      SynergyEdge(card_a, card_b, relation_in(ta, card_a, card_b), ta.theme)),
     seen_pairs |-> acc.seen_pairs \cup {normalized_pair(card_a, card_b)}]

\* The body of the inner loop of build_edges; acc is [edges, seen_pairs]
visit_pair(ta, card_a, card_b, acc) ==
    IF normalized_pair(card_a, card_b) \in acc.seen_pairs THEN acc
    ELSE [edges |-> Append(acc.edges,
                      SynergyEdge(card_a, card_b, relation_in(ta, card_a, card_b), ta.theme)),
          seen_pairs |-> acc.seen_pairs \cup {normalized_pair(card_a, card_b)}]

\* The two inner loops of build_edges over one theme
RECURSIVE visit_pairs(_, _, _, _)
visit_pairs(ta, cards, pairs, acc) ==
    IF pairs = << >> THEN acc
    ELSE visit_pairs(ta, cards, Tail(pairs),
                     visit_pair(ta, cards[Head(pairs)[1]], cards[Head(pairs)[2]], acc))

RECURSIVE visit_themes(_, _)
visit_themes(themes, acc) ==
    IF themes = << >> THEN acc
    ELSE visit_themes(Tail(themes),
            visit_pairs(Head(themes), all_cards(Head(themes)),
                        PairsFrom(1, 2, Len(all_cards(Head(themes)))), acc))

\* build_edges
build_edges(themes) == visit_themes(themes, [edges |-> << >>, seen_pairs |-> {}]).edges

\* cards_in_edges of calculate_stats, reading card_a only
cards_in_edges_card_a_only(edges) == {edges[i].card_a : i \in DOMAIN edges}

\* cards_in_edges of calculate_stats
cards_in_edges(edges) ==
    {edges[i].card_a : i \in DOMAIN edges} \cup {edges[i].card_b : i \in DOMAIN edges}

\* edge_counts of calculate_stats
edge_counts(edges) ==
    [n \in {edges[i].card_a : i \in DOMAIN edges} \cup {edges[i].card_b : i \in DOMAIN edges} |->
        Cardinality({i \in DOMAIN edges : edges[i].card_a = n})
        + Cardinality({i \in DOMAIN edges : edges[i].card_b = n})]

\* calculate_stats: take(5)
hub_limit == 5

\* calculate_stats (synergy_density, theme_coverage, orphan_cards and
\* hub_cards).  hub_order is the order in which the edge_counts HashMap is
\* iterated.
calculate_stats(profiles, edges, dl, profile_order, hub_order) ==
    LET sorted_by_edges == SortByCountDesc(hub_order, edge_counts(edges))
        total == unique_cards(dl)
        possible_edges == IF total > 1 THEN (total * (total - 1)) \div 2 ELSE 0
        themed_count == Cardinality({n \in DOMAIN profiles : profiles[n].themes # << >>})
    IN  [synergy_density |-> IF possible_edges > 0
                            THEN [num |-> Len(edges), den |-> possible_edges]
                            ELSE [num |-> 0, den |-> 1],
         theme_coverage |-> IF total > 0 THEN [num |-> themed_count, den |-> total]
                            ELSE [num |-> 0, den |-> 1],
         orphan_cards |->
            SelectSeq(profile_order, LAMBDA name : name \notin cards_in_edges(edges)),
         hub_cards |-> SubSeq(sorted_by_edges, 1,
                    IF Len(sorted_by_edges) < hub_limit THEN Len(sorted_by_edges)
                    ELSE hub_limit)]

\* The SynergyMatrix analyze returns, from the parts it computes in turn
SynergyMatrix(dl, profiles, themes, edges, stats) ==
    [total_cards |-> total_cards(dl),
     unique_cards |-> unique_cards(dl),
     detected_themes |-> themes,
     primary_theme |-> IF themes = << >> THEN None ELSE themes[1].theme,
     card_profiles |-> profiles,
     edges |-> edges,
     stats |-> stats]

-----------------------------------------------------------------------------
(* api/cache.rs, api/scryfall.rs: CardCache *)

CACHE_DURATION_HOURS == 24

\* The step of the clock, in hours
TickHours == 12

CacheEntry(card, timestamp) == [card |-> card, timestamp |-> timestamp]

\* load_cache(path).unwrap_or_default()
load_cache(file) == IF file = None THEN << >> ELSE file

\* is_expired, with the clock at hour current
is_expired(timestamp, current) ==
    saturating_sub(current, timestamp) * 3600 > CACHE_DURATION_HOURS * 3600

\* CardCache::get on the entries of self.data
cache_get(entries, key, current) ==
    LET normalized_key == to_lowercase(key)
    IN  IF normalized_key \in DOMAIN entries
           /\ ~is_expired(entries[normalized_key].timestamp, current)
        THEN entries[normalized_key].card
        ELSE None

\* CardCache::set: the file it writes, from the file it reads back
cache_set(file, key, card, current) ==
    LET data == load_cache(file)
        normalized_key == to_lowercase(key)
    IN  [k \in DOMAIN data \cup {normalized_key} |->
            IF k = normalized_key THEN CacheEntry(card, current) ELSE data[k]]

-----------------------------------------------------------------------------
(* calculator/analyzer.rs *)

very_high_pip_density == 5

\* Variant of analyze_pip_intensity that leaves the analyses in deck.colors order.
analyze_pip_intensity_unsorted(d) ==
    [i \in DOMAIN d.colors |->
        LET intensity == Get(d.pip_intensity, d.colors[i])
        IN  [intensity |-> intensity,
             warning |-> IF intensity >= high_pip_density
                         THEN [color |-> d.colors[i], intensity |-> intensity,
                               wording |-> IF intensity >= very_high_pip_density
                                           THEN "very high" ELSE "high"]
                         ELSE None]]

\* analyze_pip_intensity: a PipAnalysis per entry of deck.colors, with the
\* warning (the colour, the intensity and the "very high" or the "high"
\* text), stably sorted by intensity, descending.
analyze_pip_intensity(d) ==
    LET unsorted == analyze_pip_intensity_unsorted(d)
        order == SortByCountDesc([i \in DOMAIN unsorted |-> i],
                                 [i \in DOMAIN unsorted |-> unsorted[i].intensity])
    IN  [i \in DOMAIN order |-> unsorted[order[i]]]

\* get_intensity_recommendations: filter_map(|a| a.warning)
get_intensity_recommendations(d) ==
    LET warned == SelectSeq(analyze_pip_intensity(d), LAMBDA a : a.warning # None)
    IN  [i \in DOMAIN warned |-> warned[i].warning]

-----------------------------------------------------------------------------
(* curve/analyzer.rs, curve/types.rs: CurveAnalyzer *)

\* The cards of the curve decklists, as the card API returns them: Glorious
\* Anthem {1}{W}{W}, Judge's Familiar {W/U}, Thought-Knot Seer {3}{C},
\* Fireball {X}{R} and the land Blood Crypt (mana_cost "").  The curve
\* analysis does not read the oracle text.
CurveDatabase ==
    LET card(name, mana_cost, cmc, type_line, color_identity) ==
            name :> Card(name, mana_cost, [num |-> cmc, den |-> 1], type_line,
                         << >>, color_identity)
    IN  card("Glorious Anthem", <<<<"1">>, <<"W">>, <<"W">>>>, 3,
             <<"Enchantment">>, <<"W">>)
     @@ card("Judge's Familiar", <<<<"W", "U">>>>, 1,
             <<"Creature", "--", "Bird">>, <<"U", "W">>)
     @@ card("Thought-Knot Seer", <<<<"3">>, <<"C">>>>, 4,
             <<"Creature", "--", "Eldrazi">>, << >>)
     @@ card("Fireball", <<<<"X">>, <<"R">>>>, 1, <<"Sorcery">>, <<"R">>)
     @@ card("Blood Crypt", << >>, 0,
             <<"Land", "--", "Swamp", "Mountain">>, <<"B", "R">>)

\* Variant of is_land that compares the type line without lowercasing it.
is_land_case_sensitive(card) == contains(<<card.type_line>>, <<"land">>)

\* CurveAnalyzer::is_land(&card.type_line)
is_land(card) == contains(lower_type_line(card), <<"land">>)

\* f64::round (half away from zero) followed by `as u32`, on a fraction >= 0
round(r) == (2 * r.num + r.den) \div (2 * r.den)

\* Variant of count_color_pips that counts each side of a hybrid symbol as 1.0.
count_color_pips_hybrid_whole(mana_cost, quantity) ==
    LET amount(letter) ==
            SumFn([i \in DOMAIN mana_cost |-> 2 * Occurrences(mana_cost[i], letter)],
                  DOMAIN mana_cost)
    IN  [white |-> amount("W") * quantity, blue |-> amount("U") * quantity,
         black |-> amount("B") * quantity, red |-> amount("R") * quantity,
         green |-> amount("G") * quantity, colorless |-> amount("C") * quantity]

\* count_color_pips: a ColorPipBreakdown in units of 0.5 pip.  A symbol with
\* a '/' gives 0.5 to each of its parts that add_pip_for_symbol knows, any
\* other symbol 1.0 if it is one of W, U, B, R, G, C; the sums are then
\* multiplied by the quantity.  (The API writes the letters in upper case.)
count_color_pips(mana_cost, quantity) ==
    LET amount(letter) ==
            SumFn([i \in DOMAIN mana_cost |->
                      IF Len(mana_cost[i]) > 1
                      THEN Occurrences(mana_cost[i], letter)
                      ELSE 2 * Occurrences(mana_cost[i], letter)],
                  DOMAIN mana_cost)
    IN  [white |-> amount("W") * quantity, blue |-> amount("U") * quantity,
         black |-> amount("B") * quantity, red |-> amount("R") * quantity,
         green |-> amount("G") * quantity, colorless |-> amount("C") * quantity]

\* The entries the loop of CurveAnalyzer::analyze does not skip
curve_entries(dl) == SelectSeq(hydrated_mainboard(dl), LAMBDA e : ~is_land(e.card))

\* The CmcBuckets analyze collects from these entries, sorted by cmc
curve_buckets(entries) ==
    LET cmcs == {round(entries[i].card.cmc) : i \in DOMAIN entries}
        names(es) == [i \in DOMAIN es |-> es[i].card.name]
        is_creature_line(e) == contains(lower_type_line(e.card), <<"creature">>)
        bucket(cmc) ==
            LET all == SelectSeq(entries, LAMBDA e : round(e.card.cmc) = cmc)
                creatures == SelectSeq(all, is_creature_line)
                others == SelectSeq(all, LAMBDA e : ~is_creature_line(e))
            IN  [cmc |-> cmc,
                 total_count |-> SumQuantities(all),
                 creature_count |-> SumQuantities(creatures),
                 non_creature_count |-> SumQuantities(others),
                 card_names |-> names(all),
                 creature_names |-> names(creatures),
                 non_creature_names |-> names(others)]
    IN  [i \in 1..Cardinality(cmcs) |->
            bucket(CHOOSE cmc \in cmcs : Cardinality({k \in cmcs : k < cmc}) = i - 1)]

\* CurveAnalyzer::calculate_stats; all_cmcs holds the cmc of every entry
\* quantity times.  Fractions are left unreduced over the divisor of the code.
curve_calculate_stats(buckets, entries) ==
    LET total_nonland == SumQuantities(entries)
        halves(e) == (2 * e.card.cmc.num) \div e.card.cmc.den
        values == {halves(entries[i]) : i \in DOMAIN entries}
        copies(Test(_)) == SumQuantities(SelectSeq(entries, LAMBDA e : Test(halves(e))))
        \* sorted_cmcs[i], counting from 0
        sorted_cmcs(i) ==
            CHOOSE v \in values :
                /\ copies(LAMBDA h : h < v) <= i
                /\ i < copies(LAMBDA h : h <= v)
        mid == total_nonland \div 2
        counts(field) == SumFn([i \in DOMAIN buckets |-> buckets[i][field]], DOMAIN buckets)
        \* max_by_key returns the last of the buckets with the largest count
        mode == CHOOSE i \in DOMAIN buckets :
                    /\ \A j \in DOMAIN buckets : buckets[j].total_count <= buckets[i].total_count
                    /\ \A j \in (i + 1)..Len(buckets) :
                          buckets[j].total_count < buckets[i].total_count
        distribution(field, total) ==
            IF total = 0 THEN << >>
            ELSE [cmc \in {buckets[i].cmc : i \in DOMAIN buckets} |->
                    [num |-> (CHOOSE b \in SeqToSet(buckets) : b.cmc = cmc)[field],
                     den |-> total]]
    IN  IF total_nonland = 0
        THEN [average_cmc |-> [num |-> 0, den |-> 1], median_cmc |-> [num |-> 0, den |-> 1],
              mode_cmc |-> 0, total_nonland_cards |-> 0, total_creatures |-> 0,
              total_non_creatures |-> 0, cmc_distribution |-> << >>,
              creature_distribution |-> << >>, non_creature_distribution |-> << >>]
        ELSE [average_cmc |-> [num |-> SumFn([i \in DOMAIN entries |->
                                          entries[i].quantity * halves(entries[i])],
                                        DOMAIN entries),
                               den |-> 2 * total_nonland],
              median_cmc |-> IF total_nonland % 2 = 0
                             THEN [num |-> sorted_cmcs(mid - 1) + sorted_cmcs(mid), den |-> 4]
                             ELSE [num |-> sorted_cmcs(mid), den |-> 2],
              mode_cmc |-> buckets[mode].cmc,
              total_nonland_cards |-> total_nonland,
              total_creatures |-> counts("creature_count"),
              total_non_creatures |-> counts("non_creature_count"),
              cmc_distribution |-> distribution("total_count", total_nonland),
              creature_distribution |->
                  distribution("creature_count", counts("creature_count")),
              non_creature_distribution |->
                  distribution("non_creature_count", counts("non_creature_count"))]

\* CurveAnalyzer::analyze.  pip_breakdown is in units of 0.5 pip; every card
\* of the catalogues has a mana_cost (the empty one for a land).
curve_analyze(dl) ==
    LET entries == curve_entries(dl)
        buckets == curve_buckets(entries)
        pips == [i \in DOMAIN entries |->
                    count_color_pips(entries[i].card.mana_cost, entries[i].quantity)]
        largest(field) ==
            IF buckets = << >> THEN 0
            ELSE CHOOSE m \in {buckets[i][field] : i \in DOMAIN buckets} :
                    \A i \in DOMAIN buckets : buckets[i][field] <= m
    IN  [total_cards |-> total_cards(dl),
         unique_cards |-> unique_cards(dl),
         buckets |-> buckets,
         stats |-> curve_calculate_stats(buckets, entries),
         max_cmc |-> largest("cmc"),
         max_count |-> largest("total_count"),
         pip_breakdown |->
             [color \in {"white", "blue", "black", "red", "green", "colorless"} |->
                 SumFn([i \in DOMAIN pips |-> pips[i][color]], DOMAIN pips)]]

-----------------------------------------------------------------------------
(* curve/mana_bridge.rs *)

\* ColorPipBreakdown::to_mana_symbols: the rounded amount of every field > 0.0
to_mana_symbols(pips) ==
    LET field == [c \in Color |->
                    CASE c = "W" -> "white" [] c = "U" -> "blue" [] c = "B" -> "black"
                      [] c = "R" -> "red" [] c = "G" -> "green" [] c = "C" -> "colorless"]
    IN  [c \in {k \in Color : pips[field[k]] > 0} |->
            round([num |-> pips[field[c]], den |-> 2])]

\* ColorPipBreakdown::colors: W, U, B, R, G in this order, without Colorless
pip_colors(pips) ==
    SelectSeq(<<"W", "U", "B", "R", "G">>, LAMBDA c : c \in DOMAIN to_mana_symbols(pips))

\* detect_dual_lands: one DualLand per colour identity of two or more colours
\* among the hydrated mainboard lands, with the summed quantity; the Vec
\* comes out of the land_groups HashMap in the order group_order of its keys.
land_groups(dl) ==
    LET sorted(identity) ==
            SelectSeq(<<"W", "U", "B", "R", "G", "C">>, LAMBDA c : c \in SeqToSet(identity))
        lands == SelectSeq(hydrated_mainboard(dl),
                     LAMBDA e : is_land(e.card) /\ Len(e.card.color_identity) >= 2)
    IN  [colors \in {sorted(lands[i].card.color_identity) : i \in DOMAIN lands} |->
            SumQuantities(SelectSeq(lands,
                LAMBDA e : sorted(e.card.color_identity) = colors))]

detect_dual_lands(dl, group_order) ==
    [i \in DOMAIN group_order |-> DualLand(group_order[i], land_groups(dl)[group_order[i]])]

\* build_deck_from_analysis; Deck::new leaves pip_intensity empty
build_deck_from_analysis(curve, dl, target_lands, group_order) ==
    [NewDeck EXCEPT !.target_lands = target_lands,
                    !.colors = pip_colors(curve.pip_breakdown),
                    !.mana_symbols = to_mana_symbols(curve.pip_breakdown),
                    !.dual_lands = detect_dual_lands(dl, group_order)]

-----------------------------------------------------------------------------
(* Actions of the mana command *)

\* DeckBuilder::new(format).colors(..).mana_symbols(..).dual_lands(..)
\*     .pip_intensity(..).target_lands(..).build()
BuildDeck ==
    /\ phase = "new"
    /\ \E colors \in ColorLists, symbols \in SymbolMaps, duals \in DualLists,
          intensity \in IntensityMaps, lands \in LandChoices :
          deck' = [target_lands |-> lands,
                   colors |-> colors,
                   mana_symbols |-> symbols,
                   dual_lands |-> duals,
                   pip_intensity |-> intensity]
    /\ phase' = "built"
    /\ UNCHANGED <<algorithm, mana_base, deck_list, min_theme_cards, matrix,
                   analysis, call, returned, cache_file, cache_data,
                   cache_sets, now>>

\* tests::make_deck(colors, mana_symbols, dual_lands, target_lands)
MakeTestDeck ==
    /\ phase = "new"
    /\ deck' \in TestDecks
    /\ phase' = "built"
    /\ UNCHANGED <<algorithm, mana_base, deck_list, min_theme_cards, matrix,
                   analysis, call, returned, cache_file, cache_data,
                   cache_sets, now>>

\* run_calculation: get_calculator(algorithm).calculate(deck)
Calculate ==
    /\ phase = "built"
    /\ \E a \in Algorithm :
          /\ algorithm' = a
          /\ mana_base' = get_calculator(a, deck)
    /\ phase' = "calculated"
    /\ UNCHANGED <<deck, deck_list, min_theme_cards, matrix, analysis, call, returned, cache_file, cache_data,
                   cache_sets, now>>

\* DeckBuilder, for the decks of the pip analysis: up to two colours out of
\* W and U, a pip_intensity that may lack a colour, and for each colour the
\* pips of its intensive cards (two apiece) and one more.
BuildIntensityDeck ==
    /\ phase = "new"
    /\ \E colors \in SeqsUpTo({"W", "U"}, 2), keys \in SUBSET {"W", "U"} :
       \E intensity \in [keys -> 0..MaxWarnedIntensity] :
          deck' = [NewDeck EXCEPT
                      !.colors = colors,
                      !.mana_symbols = [c \in {"W", "U"} |-> 2 * Get(intensity, c) + 1],
                      !.pip_intensity = intensity]
    /\ phase' = "built"
    /\ UNCHANGED <<algorithm, mana_base, deck_list, min_theme_cards, matrix,
                   analysis, call, returned, cache_file, cache_data,
                   cache_sets, now>>

\* analyze_pip_intensity(&deck) and get_intensity_recommendations(&deck)
AnalyzePipIntensity ==
    /\ phase = "built"
    /\ call' = [deck |-> deck]
    /\ returned' = [analyses |-> analyze_pip_intensity(deck),
                    recommendations |-> get_intensity_recommendations(deck)]
    /\ phase' = "returned"
    /\ UNCHANGED <<deck, algorithm, mana_base, deck_list, min_theme_cards, matrix, analysis, cache_file, cache_data,
                   cache_sets, now>>

-----------------------------------------------------------------------------
(* Actions of the synergy command *)

\* TextDecklistParser::parse, one card line: the entry is pushed unhydrated
AddEntry ==
    /\ phase \in {"new", "parsing"}
    /\ Len(deck_list.entries) < MaxEntries
    /\ \E quantity \in Quantities, card_name \in ExploredNames,
          section \in ExploredSections :
          deck_list' = add_entry(deck_list, quantity, card_name, section)
    /\ phase' = "parsing"
    /\ UNCHANGED <<deck, algorithm, mana_base, min_theme_cards, matrix,
                   analysis, call, returned, cache_file, cache_data,
                   cache_sets, now>>

\* handle_synergy_command, step 2: every entry whose name the card API finds
\* gets its card; the others keep None.
Hydrate ==
    /\ phase \in {"new", "parsing"}
    /\ deck_list' =
          [entries |->
              [i \in DOMAIN deck_list.entries |->
                  LET entry == deck_list.entries[i]
                  IN  IF entry.card_name \in DOMAIN CardDatabase
                      THEN [entry EXCEPT !.card = CardDatabase[entry.card_name]]
                      ELSE entry]]
    /\ phase' = "hydrated"
    /\ UNCHANGED <<deck, algorithm, mana_base, min_theme_cards, matrix,
                   analysis, call, returned, cache_file, cache_data,
                   cache_sets, now>>

\* tests::create_token_deck
CreateTokenDeck ==
    /\ phase = "new"
    /\ deck_list' = create_token_deck
    /\ phase' = "hydrated"
    /\ UNCHANGED <<deck, algorithm, mana_base, min_theme_cards, matrix,
                   analysis, call, returned, cache_file, cache_data,
                   cache_sets, now>>

\* The thresholds a detector is built with: RuleBasedDetector::new (which
\* get_detector uses) or RuleBasedDetector::with_min_theme_cards(n)
MinThemeChoices == (1..MaxConfiguredMin) \cup {default_min_theme_cards}

\* get_detector().analyze(&deck_list), or the same with a detector built by
\* with_min_theme_cards: SynergyDetector::analyze for RuleBasedDetector, under
\* every order in which the three HashMaps can be iterated.
Analyze ==
    /\ phase = "hydrated"
    /\ \E min_cards \in MinThemeChoices, profiles \in {build_card_profiles(deck_list)} :
       \E profile_order \in Perms(DOMAIN profiles) :
       \E cards \in {theme_cards(profiles, deck_list, profile_order)} :
       \E theme_order \in Perms(surviving_themes(cards, min_cards)) :
       \E themes \in {aggregate_themes(profiles, deck_list, cards, theme_order)} :
       \E edges \in {build_edges(themes)} :
       \E hub_order \in Perms(DOMAIN edge_counts(edges)) :
          /\ min_theme_cards' = min_cards
          /\ matrix' = SynergyMatrix(deck_list, profiles, themes, edges,
                            calculate_stats(profiles, edges, deck_list, profile_order,
                                            hub_order))
    /\ phase' = "analyzed"
    /\ UNCHANGED <<deck, algorithm, mana_base, deck_list, analysis, call, returned, cache_file, cache_data,
                   cache_sets, now>>

-----------------------------------------------------------------------------
(* Actions of the curve command *)

\* TextDecklistParser::parse, one card line of a curve decklist
AddCurveEntry ==
    /\ phase \in {"new", "parsing"}
    /\ Len(deck_list.entries) < MaxCurveEntries
    /\ \E quantity \in 1..MaxQuantity, card_name \in DOMAIN CurveDatabase,
          section \in ExploredSections :
          deck_list' = add_entry(deck_list, quantity, card_name, section)
    /\ phase' = "parsing"
    /\ UNCHANGED <<deck, algorithm, mana_base, min_theme_cards, matrix,
                   analysis, call, returned, cache_file, cache_data,
                   cache_sets, now>>

\* The hydration of the curve decklist: the card API finds every card
HydrateCurve ==
    /\ phase = "parsing"
    /\ deck_list' =
          [entries |->
              [i \in DOMAIN deck_list.entries |->
                  [deck_list.entries[i] EXCEPT
                      !.card = CurveDatabase[deck_list.entries[i].card_name]]]]
    /\ phase' = "hydrated"
    /\ UNCHANGED <<deck, algorithm, mana_base, min_theme_cards, matrix,
                   analysis, call, returned, cache_file, cache_data,
                   cache_sets, now>>

\* CurveAnalyzer::new().analyze(&deck_list)
AnalyzeCurve ==
    /\ phase = "hydrated"
    /\ analysis' = curve_analyze(deck_list)
    /\ phase' = "curve_analyzed"
    /\ UNCHANGED <<deck, algorithm, mana_base, deck_list, min_theme_cards, matrix,
                   call, returned, cache_file, cache_data,
                   cache_sets, now>>

\* calculate_mana_base(&analysis, &deck_list, target_lands, format, algorithm)
CalculateManaBase ==
    /\ phase = "curve_analyzed"
    /\ \E target_lands \in 0..MaxCurveLands, a \in Algorithm,
          group_order \in Perms(DOMAIN land_groups(deck_list)) :
          /\ deck' = build_deck_from_analysis(analysis, deck_list, target_lands, group_order)
          /\ algorithm' = a
          /\ mana_base' = get_calculator(a, deck')
    /\ phase' = "calculated"
    /\ UNCHANGED <<deck_list, min_theme_cards, matrix, analysis, call, returned, cache_file, cache_data,
                   cache_sets, now>>

-----------------------------------------------------------------------------
(* Calls of the free functions *)

\* detect_tribal_themes(&creature_type_counts, total_creatures), with a map
\* of up to two creature types; as in aggregate_themes, no count exceeds the
\* total.
DetectTribalThemes ==
    /\ phase = "new"
    /\ \E types \in SUBSET {"Elf", "Goblin"} :
       \E counts \in [types -> 0..MaxTypeCount], total \in 0..MaxTotalCreatures,
          order \in Perms(types) :
          /\ \A t \in types : counts[t] <= total
          /\ call' = [creature_type_counts |-> counts, total_creatures |-> total]
          /\ returned' = detect_tribal_themes(counts, total, order)
    /\ phase' = "returned"
    /\ UNCHANGED <<deck, algorithm, mana_base, deck_list, min_theme_cards, matrix, analysis, cache_file, cache_data,
                   cache_sets, now>>

\* detect_card_themes(&card)
DetectCardThemes ==
    /\ phase = "new"
    /\ \E card \in ExploredCards :
          /\ call' = [card |-> card]
          /\ returned' = detect_card_themes(card)
    /\ phase' = "returned"
    /\ UNCHANGED <<deck, algorithm, mana_base, deck_list, min_theme_cards, matrix, analysis, cache_file, cache_data,
                   cache_sets, now>>

\* classify_card_role(&card, &theme)
ClassifyCardRole ==
    /\ phase = "new"
    /\ \E card \in ExploredCards,
          theme \in {Theme("Lifegain"), Theme("Tokens"), Theme("Graveyard"),
                     Theme("Voltron")} :
          /\ call' = [card |-> card, theme |-> theme]
          /\ returned' = classify_card_role(card, theme)
    /\ phase' = "returned"
    /\ UNCHANGED <<deck, algorithm, mana_base, deck_list, min_theme_cards, matrix, analysis, cache_file, cache_data,
                   cache_sets, now>>

-----------------------------------------------------------------------------
(* Actions of the card cache *)

\* The keys and the cards the cache is called with
CacheKeys == {"Elf Caller", "elf caller", "Goblin Healer"}

CacheCards == {CardDatabase["Elf Caller"], CardDatabase["Goblin Healer"]}

\* The clock advances
Tick ==
    /\ phase \in {"new", "cache"}
    /\ now + TickHours <= MaxClock
    /\ now' = now + TickHours
    /\ UNCHANGED <<phase, deck, algorithm, mana_base, deck_list, min_theme_cards,
                   matrix, analysis, call, returned, cache_file, cache_data, cache_sets>>

\* An earlier run of the program caches a card: CardCache::set of a
\* CardCache that is gone when the client is built.
EarlierRunSet ==
    /\ phase = "new"
    /\ \E key \in CacheKeys, card \in CacheCards :
          cache_file' = cache_set(cache_file, key, card, now)
    /\ UNCHANGED <<phase, deck, algorithm, mana_base, deck_list, min_theme_cards,
                   matrix, analysis, call, returned, cache_data, cache_sets, now>>

\* ScryfallClient::new: CardCache::new()
CacheNew ==
    /\ phase = "new"
    /\ cache_data' = load_cache(cache_file)
    /\ phase' = "cache"
    /\ UNCHANGED <<deck, algorithm, mana_base, deck_list, min_theme_cards, matrix,
                   analysis, call, returned, cache_file, cache_sets, now>>

\* self.cache.set(key, &card): writes the file, leaves self.data alone
CacheSet ==
    /\ phase = "cache"
    /\ \E key \in CacheKeys, card \in CacheCards :
          /\ cache_file' = cache_set(cache_file, key, card, now)
          /\ cache_sets' = cache_set(cache_sets, key, card, now)
          /\ call' = [op |-> "set", key |-> key]
    /\ returned' = None
    /\ UNCHANGED <<phase, deck, algorithm, mana_base, deck_list, min_theme_cards,
                   matrix, analysis, cache_data, now>>

\* self.cache.get(key)
CacheGet ==
    /\ phase = "cache"
    /\ \E key \in CacheKeys :
          /\ call' = [op |-> "get", key |-> key]
          /\ returned' = cache_get(cache_data, key, now)
    /\ UNCHANGED <<phase, deck, algorithm, mana_base, deck_list, min_theme_cards,
                   matrix, analysis, cache_file, cache_data, cache_sets, now>>

\* ScryfallClient::search_card(query): the cached card, or the card the API
\* finds for the query, which is then cached under its name.
SearchCard ==
    /\ phase = "cache"
    /\ \E query \in CacheKeys :
          LET cached == cache_get(cache_data, query, now)
              card == CHOOSE c \in CacheCards : to_lowercase(c.name) = to_lowercase(query)
          IN  /\ call' = [op |-> "search_card", key |-> query]
              /\ IF cached # None
                 THEN /\ returned' = [card |-> cached, fetched |-> FALSE]
                      /\ UNCHANGED <<cache_file, cache_sets>>
                 ELSE /\ returned' = [card |-> card, fetched |-> TRUE]
                      /\ cache_file' = cache_set(cache_file, card.name, card, now)
                      /\ cache_sets' = cache_set(cache_sets, card.name, card, now)
    /\ UNCHANGED <<phase, deck, algorithm, mana_base, deck_list, min_theme_cards,
                   matrix, analysis, cache_data, now>>

-----------------------------------------------------------------------------
(* The commands *)

Init ==
    /\ phase = "new"
    /\ deck = NewDeck
    /\ algorithm = "Simple"
    /\ mana_base = NoManaBase
    /\ deck_list = NewDeckList
    /\ min_theme_cards = default_min_theme_cards
    /\ matrix = NewSynergyMatrix
    /\ analysis = None
    /\ call = None
    /\ returned = None
    /\ cache_file = None
    /\ cache_data = None
    /\ cache_sets = << >>
    /\ now = 0

Next == BuildDeck \/ MakeTestDeck \/ Calculate

\* scry mana
Spec == Init /\ [][Next]_vars

SynergyNext == AddEntry \/ Hydrate \/ CreateTokenDeck \/ Analyze

\* scry synergy
SynergySpec == Init /\ [][SynergyNext]_vars

\* scry synergy and the curve analysis of the same decklists
DeckListNext == SynergyNext \/ AnalyzeCurve

DeckListSpec == Init /\ [][DeckListNext]_vars

CurveNext == AddCurveEntry \/ HydrateCurve \/ AnalyzeCurve \/ CalculateManaBase

\* The curve analysis with its mana base recommendation
CurveSpec == Init /\ [][CurveNext]_vars

\* The calculators and the pip analysis on pip-intensive decks
IntensitySpec == Init /\ [][BuildIntensityDeck \/ Calculate \/ AnalyzePipIntensity]_vars

\* The card cache of a ScryfallClient
CacheNext == Tick \/ EarlierRunSet \/ CacheNew \/ CacheSet \/ CacheGet \/ SearchCard

CacheSpec == Init /\ [][CacheNext]_vars

\* detect_card_themes and classify_card_role on their own
CardSpec == Init /\ [][DetectCardThemes \/ ClassifyCardRole]_vars

\* detect_tribal_themes on its own
TribalSpec == Init /\ [][DetectTribalThemes]_vars

-----------------------------------------------------------------------------
(* Properties of the mana base calculator *)

Calculated == phase = "calculated"

\* calculate got past the early return of simple.rs:12 / cmc_weighted.rs:17.
Allocated == Calculated /\ total_mana_symbols(deck) # 0 /\ deck.colors # << >>

SimpleBacked == algorithm \in {"Simple", "Hypergeometric"}

\* The weights and their denominator the chosen calculator normalises with.
Weights == IF algorithm = "CmcWeighted" THEN CmcWeights(deck) ELSE SimpleWeights(deck)

WeightSum ==
    IF algorithm = "CmcWeighted" THEN total_weighted(deck) ELSE total_mana_symbols(deck)

Counts == basic_counts(deck, Weights, WeightSum)

TotalBasics == SumFn(mana_base.basics, DOMAIN mana_base.basics)

Ceiling(r) == FloorU32(r) + (IF r.num % r.den = 0 THEN 0 ELSE 1)

\* C1: slot conservation.  For every deck with target_lands >= the total dual
\* count and a non-zero total pip count, calculate (Simple or CMC-weighted)
\* returns basics that sum to exactly target_lands - dual_land_count.  (A deck
\* without colours, for which calculate returns the empty ManaBase, is left
\* aside.)
C1_SlotConservation ==
    (Allocated /\ deck.target_lands >= dual_land_count(deck))
    => (~mana_base.panicked
        /\ TotalBasics = deck.target_lands - dual_land_count(deck))

\* C5: largest-remainder exactness.  Whenever the per-colour fractional counts
\* are non-negative and sum to exactly basic_slots, the rounded basics sum to
\* exactly basic_slots and every colour ends at the floor or the floor plus one
\* of its fractional count.
CountsSumToSlots ==
    /\ \A c \in DOMAIN Counts : ~IsNaN(Counts[c])
    /\ \E den \in {Counts[c].den : c \in DOMAIN Counts} :
          /\ \A c \in DOMAIN Counts : Counts[c].den = den
          /\ SumFn([c \in DOMAIN Counts |-> Counts[c].num], DOMAIN Counts)
                = basic_land_slots(deck) * den

C5_RoundingExact ==
    (Allocated /\ CountsSumToSlots)
    => (/\ ~mana_base.panicked
        /\ TotalBasics = basic_land_slots(deck)
        /\ \A c \in DOMAIN Counts :
              Get(mana_base.basics, c) \in {FloorU32(Counts[c]), FloorU32(Counts[c]) + 1})

\* C6: calculate is total and never divides by zero.  With zero pips or no
\* colours the result is the empty ManaBase; otherwise the call returns and
\* every colour percentage has a non-zero denominator and lies in [0, 1].
C6_TotalNoDivisionByZero ==
    Calculated =>
        IF total_mana_symbols(deck) = 0 \/ deck.colors = << >>
        THEN mana_base = NewManaBase
        ELSE /\ ~mana_base.panicked
             /\ \A c \in DOMAIN mana_base.color_percentages :
                   LET p == mana_base.color_percentages[c]
                   IN  p.den # 0 /\ 0 <= p.num /\ p.num <= p.den

\* C7: mono-colour, no duals.  A deck whose only colour holds all of its
\* (positive) pips, without dual lands and with target_lands = N, gets
\* basics = {colour: N}.
MonoColorNoDuals(c) ==
    /\ SeqToSet(deck.colors) = {c}
    /\ Get(deck.mana_symbols, c) > 0
    /\ total_mana_symbols(deck) = Get(deck.mana_symbols, c)
    /\ deck.dual_lands = << >>

C7_MonoColor ==
    \A c \in Color :
        (Calculated /\ MonoColorNoDuals(c))
        => (/\ ~mana_base.panicked
            /\ Get(mana_base.basics, c) = deck.target_lands
            /\ DOMAIN mana_base.basics \subseteq {c})

\* Witness of C7: the mono-blue test deck has been calculated and got 24 Islands.
C7_Witness ==
    /\ Calculated
    /\ deck = TestMonoBlue
    /\ MonoColorNoDuals("U")
    /\ mana_base.basics = [c \in {"U"} |-> 24]

\* C8: two-colour even split (SimpleCalculator).  Two colours with equal
\* positive pip counts, one dual group covering both with count d <=
\* target_lands: total basics = target_lands - d, and the two basic counts are
\* equal when that total is even and differ by exactly one when it is odd.
TwoColorEven(a, b) ==
    /\ deck.colors = <<a, b>>
    /\ a # b
    /\ Get(deck.mana_symbols, a) > 0
    /\ Get(deck.mana_symbols, a) = Get(deck.mana_symbols, b)
    /\ total_mana_symbols(deck) = 2 * Get(deck.mana_symbols, a)
    /\ Len(deck.dual_lands) = 1
    /\ Occurrences(deck.dual_lands[1].colors, a) = 1
    /\ Occurrences(deck.dual_lands[1].colors, b) = 1
    /\ deck.dual_lands[1].count <= deck.target_lands

AbsDiff(x, y) == IF x >= y THEN x - y ELSE y - x

C9_ExtrasByPercentage ==
    (Allocated /\ SimpleBacked /\ ~ScalesDown(deck, Weights, WeightSum))
    => (/\ \A c \in DOMAIN Counts :
              Get(mana_base.basics, c) \in {FloorU32(Counts[c]), Ceiling(Counts[c])}
        /\ (deck = TestGrixis
            => TotalBasics = 16 /\ Get(mana_base.basics, "R") <= 10))

\* C10: share monotonicity (SimpleCalculator).  For any two deck colours a, b
\* with the same total of dual sources, a strictly larger pip count of a
\* gives basics[a] >= basics[b].
C10_ShareMonotone ==
    (Calculated /\ algorithm = "Simple")
    => \A a, b \in SeqToSet(deck.colors) :
          (/\ Get(dual_sources(deck), a) = Get(dual_sources(deck), b)
           /\ Get(deck.mana_symbols, a) > Get(deck.mana_symbols, b))
          => Get(mana_base.basics, a) >= Get(mana_base.basics, b)

\* A dual land group of the deck lists colour c.
Covered(c) == Get(dual_sources(deck), c) > 0

\* C11: dual coverage lowers a colour's basics (SimpleCalculator).  Among the
\* deck colours with equal pip counts, a colour that no dual land covers gets
\* at least as many basics as a colour covered by a dual group; the five-colour
\* test deck (4 pips each, one W/U group of 2, 24 lands) ends with 22 basics
\* and each of B, R, G strictly above W and above U.
C11_DualCoverage ==
    (Calculated /\ SimpleBacked)
    => (/\ \A a, b \in SeqToSet(deck.colors) :
              (/\ ~Covered(a)
               /\ Covered(b)
               /\ Get(deck.mana_symbols, a) = Get(deck.mana_symbols, b))
              => Get(mana_base.basics, a) >= Get(mana_base.basics, b)
        /\ (deck = TestFiveColor
            => /\ TotalBasics = 22
               /\ \A a \in {"B", "R", "G"}, b \in {"W", "U"} :
                     Get(mana_base.basics, a) > Get(mana_base.basics, b)))

\* C13: Hypergeometric falls back to Simple.  For every deck,
\* get_calculator(Hypergeometric).calculate(deck) returns the ManaBase (basics,
\* duals, percentages, recommendations) that
\* get_calculator(Simple).calculate(deck) returns.
C13_HypergeometricIsSimple ==
    (Calculated /\ algorithm = "Hypergeometric")
    => /\ mana_base = get_calculator("Simple", deck)
       /\ mana_base = SimpleCalculate(deck)

\* Witness of C13: a Hypergeometric calculation of a deck on which the
\* CMC-weighted calculator gives other basics than the simple one.
C13_Witness ==
    /\ Calculated
    /\ algorithm = "Hypergeometric"
    /\ mana_base.basics # << >>
    /\ ~CmcWeightedCalculate(deck).panicked
    /\ CmcWeightedCalculate(deck).basics # mana_base.basics

\* C16: CMC-weighted recommendations.  CmcWeightedCalculator appends a
\* recommendation naming the colour and its pip-intensity count for every
\* colour of the deck whose pip-intensity is >= 3 and none for a colour below
\* 3; for a pip-intensity >= 5 the recommendation is a stronger one, distinct
\* from the one given for 3 or 4.  SimpleCalculator appends none.
C16_Recommendations ==
    Calculated
    => LET recs == mana_base.recommendations
           intensity(c) == Get(deck.pip_intensity, c)
       IN  IF algorithm = "CmcWeighted"
           THEN /\ \A c \in SeqToSet(deck.colors) :
                      intensity(c) >= 3
                      => \E i \in DOMAIN recs :
                            /\ recs[i].color = c
                            /\ recs[i].intensity = intensity(c)
                /\ \A i \in DOMAIN recs :
                      /\ recs[i].color \in SeqToSet(deck.colors)
                      /\ intensity(recs[i].color) >= 3
                /\ \A i, j \in DOMAIN recs :
                      (recs[i].intensity >= 5 /\ recs[j].intensity < 5)
                      => recs[i].wording # recs[j].wording
           ELSE recs = << >>

C24_FiveColorScalesDown ==
    (Calculated /\ SimpleBacked /\ deck = TestFiveColor)
    => /\ basic_land_slots(deck) = 22
       /\ total_remaining(deck, Weights, WeightSum) >= 22 * WeightSum
       /\ ScalesDown(deck, Weights, WeightSum)

\* C28: CMC-weighted reduces to Simple without intensity data.  For every
\* Deck in which every colour's pip_intensity is 0 or absent,
\* CmcWeightedCalculator.calculate returns the same basics and the same
\* color_percentages as SimpleCalculator.calculate.
C28_WeightedReducesToSimple ==
    (/\ Calculated
     /\ algorithm = "CmcWeighted"
     /\ \A c \in DOMAIN deck.pip_intensity : deck.pip_intensity[c] = 0)
    => LET simple == get_calculator("Simple", deck)
           same(a, b) == a.num * b.den = b.num * a.den
       IN  /\ mana_base.panicked = simple.panicked
           /\ mana_base.basics = simple.basics
           /\ DOMAIN mana_base.color_percentages = DOMAIN simple.color_percentages
           /\ \A c \in DOMAIN mana_base.color_percentages :
                 same(mana_base.color_percentages[c], simple.color_percentages[c])

-----------------------------------------------------------------------------
(* Properties of the synergy detector *)

Analyzed == phase = "analyzed"

\* The card names a ThemeAnalysis lists, over its three role lists
ThemeCardNames(ta) == SeqToSet(ta.enablers \o ta.payoffs \o ta.support)

\* The two names sit at two different positions of the theme's all_cards().
PairInTheme(ta, a, b) ==
    \E p, q \in DOMAIN all_cards(ta) :
        p < q /\ {all_cards(ta)[p], all_cards(ta)[q]} = {a, b}

EdgeEndpoints == {matrix.edges[i].card_a : i \in DOMAIN matrix.edges}
                     \cup {matrix.edges[i].card_b : i \in DOMAIN matrix.edges}

\* C2: edge dedup.  In the SynergyMatrix analyze returns no two edges join
\* the same unordered pair of card names, also when the pair co-occurs in
\* several surviving themes; and every edge carries the theme, the reason and
\* the relation of the first theme of detected_themes that holds its pair.
C2_EdgeDedup ==
    Analyzed =>
        /\ \A i, j \in DOMAIN matrix.edges :
              i # j => {matrix.edges[i].card_a, matrix.edges[i].card_b}
                          # {matrix.edges[j].card_a, matrix.edges[j].card_b}
        /\ \A i \in DOMAIN matrix.edges :
              LET e == matrix.edges[i]
                  holding == {k \in DOMAIN matrix.detected_themes :
                                 PairInTheme(matrix.detected_themes[k], e.card_a, e.card_b)}
                  first == matrix.detected_themes[CHOOSE k \in holding :
                                                     \A j \in holding : k <= j]
              IN  /\ holding # {}
                  /\ e.themes = <<first.theme>>
                  /\ e.reason = <<"Both", "support">> \o display_name(first.theme)
                                    \o <<"theme">>
                  /\ e.relation =
                        IF e.card_a \in SeqToSet(first.enablers)
                              /\ e.card_b \in SeqToSet(first.payoffs) THEN "Enables"
                        ELSE IF e.card_a \in SeqToSet(first.payoffs)
                              /\ e.card_b \in SeqToSet(first.enablers) THEN "PayoffFor"
                        ELSE "Supports"

\* An analysis in which two cards co-occur in two surviving themes that would
\* give their pair different relations, and the pair has its edge.
C2_Witness ==
    /\ Analyzed
    /\ \E i \in DOMAIN matrix.edges :
       \E k1, k2 \in DOMAIN matrix.detected_themes :
          LET e == matrix.edges[i]
              t1 == matrix.detected_themes[k1]
              t2 == matrix.detected_themes[k2]
          IN  /\ k1 < k2
              /\ e.card_a # e.card_b
              /\ PairInTheme(t1, e.card_a, e.card_b)
              /\ PairInTheme(t2, e.card_a, e.card_b)
              /\ e.themes = <<t1.theme>>
              /\ e.relation # relation_in(t2, e.card_a, e.card_b)

\* C3: theme significance filter.  Every ThemeAnalysis of detected_themes,
\* rule-based or tribal, lists at least min_theme_cards distinct card names,
\* for every decklist, also one that lists a card name in several entries.
C3_ThemeSignificance ==
    Analyzed =>
        \A k \in DOMAIN matrix.detected_themes :
            Cardinality(ThemeCardNames(matrix.detected_themes[k])) >= min_theme_cards

\* C4: orphan partition.  After analyze every key of card_profiles is either
\* in stats.orphan_cards or an endpoint of an edge, never both and never
\* neither; every edge endpoint and every hub card is a key of
\* card_profiles; and no hub card is an orphan.
C4_OrphanPartition ==
    Analyzed =>
        LET names == DOMAIN matrix.card_profiles
            orphans == SeqToSet(matrix.stats.orphan_cards)
            hubs == SeqToSet(matrix.stats.hub_cards)
        IN  /\ \A n \in names : (n \in orphans) # (n \in EdgeEndpoints)
            /\ EdgeEndpoints \subseteq names
            /\ hubs \subseteq names
            /\ hubs \cap orphans = {}

\* An analysis with an orphan card, an edge and a hub card, in which some
\* card is only ever the card_b of an edge.
C4_Witness ==
    /\ Analyzed
    /\ matrix.stats.orphan_cards # << >>
    /\ matrix.stats.hub_cards # << >>
    /\ \E i \in DOMAIN matrix.edges :
          \A j \in DOMAIN matrix.edges : matrix.edges[j].card_a # matrix.edges[i].card_b

\* What analyze returns for deck_list when its HashMaps are iterated in one
\* fixed order of their keys.
ReferenceThemes ==
    LET profiles == build_card_profiles(deck_list)
        cards == theme_cards(profiles, deck_list,
                             CHOOSE o \in Perms(DOMAIN profiles) : TRUE)
    IN  aggregate_themes(profiles, deck_list, cards,
            CHOOSE o \in Perms(surviving_themes(cards, min_theme_cards)) : TRUE)

ThemeOrder(themes) == [i \in DOMAIN themes |-> themes[i].theme]

\* The relation and theme each edge puts on its unordered pair, an edge
\* "b PayoffFor a" read as "a Enables b".
EdgeLabels(edges) ==
    {[pair |-> {edges[i].card_a, edges[i].card_b},
      themes |-> edges[i].themes,
      relation |-> IF edges[i].relation = "Supports" THEN <<"Supports">>
                   ELSE IF edges[i].relation = "Enables"
                        THEN <<edges[i].card_a, "Enables", edges[i].card_b>>
                        ELSE <<edges[i].card_b, "Enables", edges[i].card_a>>] :
        i \in DOMAIN edges}

\* C14: synergy analysis is deterministic.  For a given DeckList every run of
\* analyze yields the same order of detected_themes, the same primary_theme
\* and the same relation and theme on every edge, whatever the iteration
\* order of the hash maps: every result equals the one of the reference run.
C14_Deterministic ==
    Analyzed
    => /\ ThemeOrder(matrix.detected_themes) = ThemeOrder(ReferenceThemes)
       /\ matrix.primary_theme =
             (IF ReferenceThemes = << >> THEN None ELSE ReferenceThemes[1].theme)
       /\ EdgeLabels(matrix.edges) = EdgeLabels(build_edges(ReferenceThemes))

\* C21: theme ordering and primary theme.  In every SynergyMatrix returned
\* by analyze, detected_themes is ordered by card_count non-increasing,
\* primary_theme is the theme of its first element, and primary_theme is
\* None exactly when detected_themes is empty; hence no detected theme has a
\* larger card_count than the primary theme.
C21_PrimaryTheme ==
    Analyzed
    => LET themes == matrix.detected_themes
       IN  /\ \A i, j \in DOMAIN themes :
                 i < j => themes[i].card_count >= themes[j].card_count
           /\ (matrix.primary_theme = None) <=> (themes = << >>)
           /\ themes # << >> =>
                 /\ matrix.primary_theme = themes[1].theme
                 /\ \A k \in DOMAIN themes :
                       themes[k].theme = matrix.primary_theme
                       => \A j \in DOMAIN themes :
                             themes[j].card_count <= themes[k].card_count

\* Witness of C21: two detected themes of different card counts, the larger
\* one first and primary.
C21_Witness ==
    /\ Analyzed
    /\ Len(matrix.detected_themes) >= 2
    /\ matrix.detected_themes[1].card_count > matrix.detected_themes[2].card_count
    /\ matrix.primary_theme = matrix.detected_themes[1].theme

\* C25: no self-edges.  Every SynergyEdge produced by analyze joins two
\* different card names, for every decklist, including those in which a card
\* name appears in more than one mainboard or commander entry and so can
\* occur more than once in the card list of a tribal theme.
C25_NoSelfEdges ==
    Analyzed => \A i \in DOMAIN matrix.edges : matrix.edges[i].card_a # matrix.edges[i].card_b

\* The enabler-payoff pairs <<k, e, p>> of the detected themes
EnablerPayoffPairs ==
    UNION {{<<k, e, p>> : e \in SeqToSet(matrix.detected_themes[k].enablers),
                          p \in SeqToSet(matrix.detected_themes[k].payoffs)} :
           k \in DOMAIN matrix.detected_themes}

\* C26 as stated: edge relations actually produced.  Every edge returned by
\* analyze has relation Enables or Supports (PayoffFor and Combos are never
\* produced), and an enabler-payoff pair of the same theme always yields
\* Enables with the enabler as card_a.
C26_EdgeRelations_AsStated ==
    Analyzed
    => /\ \A i \in DOMAIN matrix.edges : matrix.edges[i].relation \in {"Enables", "Supports"}
       /\ \A t \in EnablerPayoffPairs :
             \E i \in DOMAIN matrix.edges :
                /\ matrix.edges[i].card_a = t[2]
                /\ matrix.edges[i].card_b = t[3]
                /\ matrix.edges[i].relation = "Enables"

\* C26, amended: every edge returned by analyze has relation Enables or
\* Supports, and an enabler-payoff pair of a theme yields Enables with the
\* enabler as card_a and that theme as its label unless an earlier detected
\* theme holds both cards; then the one edge of the pair is that of the
\* first such theme.
C26_EdgeRelations ==
    Analyzed
    => /\ \A i \in DOMAIN matrix.edges : matrix.edges[i].relation \in {"Enables", "Supports"}
       /\ \A t \in EnablerPayoffPairs :
             LET earlier == {k \in 1..(t[1] - 1) :
                                PairInTheme(matrix.detected_themes[k], t[2], t[3])}
                 joining == {i \in DOMAIN matrix.edges :
                                {matrix.edges[i].card_a, matrix.edges[i].card_b}
                                   = {t[2], t[3]}}
             IN  /\ Cardinality(joining) = 1
                 /\ \A i \in joining :
                       IF earlier = {}
                       THEN /\ matrix.edges[i].card_a = t[2]
                            /\ matrix.edges[i].card_b = t[3]
                            /\ matrix.edges[i].relation = "Enables"
                            /\ matrix.edges[i].themes
                                  = <<matrix.detected_themes[t[1]].theme>>
                       ELSE \E k \in earlier :
                               /\ \A j \in earlier : k <= j
                               /\ matrix.edges[i].themes
                                     = <<matrix.detected_themes[k].theme>>

\* Witness of C26: an Enables edge from an enabler to a payoff of a theme,
\* next to a Supports edge.
C26_Witness ==
    /\ Analyzed
    /\ \E t \in EnablerPayoffPairs :
       \E i, j \in DOMAIN matrix.edges :
          /\ matrix.edges[i].card_a = t[2]
          /\ matrix.edges[i].card_b = t[3]
          /\ matrix.edges[i].relation = "Enables"
          /\ matrix.edges[i].themes = <<matrix.detected_themes[t[1]].theme>>
          /\ matrix.edges[j].relation = "Supports"

\* The decklist without the entries outside the analysed deck
AnalysedDeck ==
    [deck_list EXCEPT !.entries =
        SelectSeq(deck_list.entries,
                  LAMBDA e : e.card # None /\ e.section \in {"Mainboard", "Commander"})]

\* C27: analysis ignores cards outside the analysed deck.  Sideboard or
\* Maybeboard entries and entries whose card is None change neither any
\* detected theme's percentage nor stats.synergy_density nor
\* stats.theme_coverage; in particular theme_coverage is 1 when every
\* hydrated mainboard and commander card has at least one theme.
C27_OutsideCardsIgnored ==
    Analyzed
    => LET same(a, b) == a.num * b.den = b.num * a.den
           reference == calculate_stats(matrix.card_profiles, matrix.edges, AnalysedDeck,
                                        << >>, << >>)
       IN  /\ \A k \in DOMAIN matrix.detected_themes :
                 same(matrix.detected_themes[k].percentage,
                      [num |-> matrix.detected_themes[k].card_count,
                       den |-> total_cards(AnalysedDeck)])
           /\ same(matrix.stats.synergy_density, reference.synergy_density)
           /\ same(matrix.stats.theme_coverage, reference.theme_coverage)
           /\ (/\ AnalysedDeck.entries # << >>
               /\ \A n \in DOMAIN matrix.card_profiles :
                     matrix.card_profiles[n].themes # << >>)
              => same(matrix.stats.theme_coverage, [num |-> 1, den |-> 1])

-----------------------------------------------------------------------------
(* Properties of the decklist analyses *)

CurveAnalyzed == phase = "curve_analyzed"

\* The names of the entries that carry no card data
UnhydratedNames ==
    {deck_list.entries[i].card_name :
        i \in {j \in DOMAIN deck_list.entries : deck_list.entries[j].card = None}}

\* The decklist without these entries
HydratedOnly ==
    [deck_list EXCEPT !.entries = SelectSeq(deck_list.entries, LAMBDA e : e.card # None)]

\* C15: skip unhydrated, never crash.  A DeckEntry whose card is None gets no
\* card profile, is in no theme list and no edge, and adds nothing to any CMC
\* bucket, CMC statistic or pip total; the synergy and the curve analysis
\* return a result for every mix of hydrated and unhydrated entries, the
\* empty one for a decklist without any hydrated entry.
C15_SkipUnhydrated ==
    /\ Analyzed =>
          /\ UnhydratedNames \cap DOMAIN matrix.card_profiles = {}
          /\ \A i \in DOMAIN matrix.detected_themes :
                UnhydratedNames \cap ThemeCardNames(matrix.detected_themes[i]) = {}
          /\ UnhydratedNames \cap EdgeEndpoints = {}
          /\ matrix.total_cards = total_cards(deck_list)
          /\ HydratedOnly.entries = << >> =>
                /\ matrix.card_profiles = << >>
                /\ matrix.detected_themes = << >>
                /\ matrix.primary_theme = None
                /\ matrix.edges = << >>
    /\ CurveAnalyzed =>
          /\ \A i \in DOMAIN analysis.buckets :
                UnhydratedNames \cap SeqToSet(analysis.buckets[i].card_names) = {}
          /\ analysis.buckets = curve_analyze(HydratedOnly).buckets
          /\ analysis.stats = curve_analyze(HydratedOnly).stats
          /\ analysis.pip_breakdown = curve_analyze(HydratedOnly).pip_breakdown
          /\ analysis.total_cards = total_cards(deck_list)
          /\ HydratedOnly.entries = << >> =>
                /\ analysis.buckets = << >>
                /\ analysis.stats.total_nonland_cards = 0
                /\ \A color \in DOMAIN analysis.pip_breakdown :
                      analysis.pip_breakdown[color] = 0

\* Witness of C15: a synergy analysis that found edges in a decklist whose
\* mainboard also lists a card the card API did not find.
C15_Witness ==
    /\ Analyzed
    /\ \E i \in DOMAIN deck_list.entries :
          /\ deck_list.entries[i].card = None
          /\ deck_list.entries[i].section = "Mainboard"
    /\ matrix.edges # << >>

-----------------------------------------------------------------------------
(* Properties of the curve command *)

LandEntry(e) ==
    /\ e.card # None
    /\ e.section \in {"Mainboard", "Commander"}
    /\ \E i \in DOMAIN e.card.type_line : to_lowercase(e.card.type_line[i]) = "land"

WithoutLands ==
    [deck_list EXCEPT !.entries = SelectSeq(deck_list.entries, LAMBDA e : ~LandEntry(e))]

\* C18: curve land exclusion.  A mainboard or commander entry whose card type
\* line contains "land" in any letter case leaves every CMC bucket, the CMC
\* statistics (mean, median, mode, totals, distributions) and the pip
\* breakdown exactly as they would be without that entry.
C18_LandExclusion ==
    analysis # None
    => LET without == curve_analyze(WithoutLands)
       IN  /\ analysis.buckets = without.buckets
           /\ analysis.stats = without.stats
           /\ analysis.max_cmc = without.max_cmc
           /\ analysis.max_count = without.max_count
           /\ analysis.pip_breakdown = without.pip_breakdown
           /\ \A i \in DOMAIN deck_list.entries :
                 LandEntry(deck_list.entries[i])
                 => \A b \in DOMAIN analysis.buckets :
                       deck_list.entries[i].card_name
                          \notin SeqToSet(analysis.buckets[b].card_names)

\* Witness of C18: two copies of Blood Crypt next to Glorious Anthem in the
\* mainboard, and the analysis has the one bucket of the Anthem.
C18_Witness ==
    /\ analysis # None
    /\ \E i, j \in DOMAIN deck_list.entries :
          /\ deck_list.entries[i].card_name = "Blood Crypt"
          /\ deck_list.entries[i].section = "Mainboard"
          /\ deck_list.entries[i].quantity = 2
          /\ deck_list.entries[j].card_name = "Glorious Anthem"
          /\ deck_list.entries[j].section = "Mainboard"
          /\ Len(analysis.buckets) = 1
          /\ analysis.buckets[1].cmc = 3
          /\ analysis.buckets[1].total_count = deck_list.entries[j].quantity
          /\ analysis.stats.total_nonland_cards = deck_list.entries[j].quantity

\* The pips of a mana cost for one colour letter, in units of 0.5: 1.0 for a
\* plain token that is the letter, 0.5 for each side of a token with a '/'
\* that is the letter, nothing for any other token.
PipHalves(mana_cost, letter) ==
    SumFn([i \in DOMAIN mana_cost |->
              IF mana_cost[i] = <<letter>> THEN 2
              ELSE IF Len(mana_cost[i]) > 1
                   THEN Cardinality({j \in DOMAIN mana_cost[i] : mana_cost[i][j] = letter})
                   ELSE 0],
          DOMAIN mana_cost)

PipFields ==
    [white |-> "W", blue |-> "U", black |-> "B", red |-> "R", green |-> "G",
     colorless |-> "C"]

\* C19: curve pip parsing.  For an entry quantity q, count_color_pips adds
\* q * 1.0 to a colour for each plain token W/U/B/R/G/C, q * 0.5 to each
\* colour letter on either side of a token containing '/', and nothing for
\* any other token; "{1}{W}{W}" with q = 2 gives white 4.0, "{W/U}" with
\* q = 1 gives white 0.5 and blue 0.5, and the deck-wide breakdown is the sum
\* over the non-land hydrated mainboard and commander entries.
C19_PipParsing ==
    analysis # None
    => LET counted == SelectSeq(deck_list.entries,
                          LAMBDA e : /\ e.card # None
                                     /\ e.section \in {"Mainboard", "Commander"}
                                     /\ ~LandEntry(e))
       IN  /\ \A i \in DOMAIN counted, field \in DOMAIN PipFields :
                 count_color_pips(counted[i].card.mana_cost, counted[i].quantity)[field]
                    = counted[i].quantity
                         * PipHalves(counted[i].card.mana_cost, PipFields[field])
           /\ \A field \in DOMAIN PipFields :
                 analysis.pip_breakdown[field]
                    = SumFn([i \in DOMAIN counted |->
                                counted[i].quantity
                                   * PipHalves(counted[i].card.mana_cost, PipFields[field])],
                            DOMAIN counted)
           /\ \A i \in DOMAIN counted :
                 /\ (counted[i].card.name = "Glorious Anthem" /\ counted[i].quantity = 2)
                    => count_color_pips(counted[i].card.mana_cost, 2)
                          = [white |-> 8, blue |-> 0, black |-> 0, red |-> 0,
                             green |-> 0, colorless |-> 0]
                 /\ (counted[i].card.name = "Judge's Familiar" /\ counted[i].quantity = 1)
                    => count_color_pips(counted[i].card.mana_cost, 1)
                          = [white |-> 1, blue |-> 1, black |-> 0, red |-> 0,
                             green |-> 0, colorless |-> 0]

\* Witness of C19: two Glorious Anthem, one Judge's Familiar and a Blood
\* Crypt in the mainboard: white 4.5 and blue 0.5.
C19_Witness ==
    /\ analysis # None
    /\ \E i, j, k \in DOMAIN deck_list.entries :
          /\ deck_list.entries[i].card_name = "Glorious Anthem"
          /\ deck_list.entries[i].quantity = 2
          /\ deck_list.entries[j].card_name = "Judge's Familiar"
          /\ deck_list.entries[j].quantity = 1
          /\ deck_list.entries[k].card_name = "Blood Crypt"
          /\ \A n \in {i, j, k} : deck_list.entries[n].section = "Mainboard"
    /\ analysis.pip_breakdown.white = 9
    /\ analysis.pip_breakdown.blue = 1
    /\ analysis.pip_breakdown.black = 0

\* C20: end-to-end slot invariant through the curve bridge.  For a hydrated
\* DeckList with at least one W/U/B/R/G pip, calculate_mana_base returns
\* basics summing to target_lands minus the total of the detected
\* multi-colour lands whenever target_lands is at least that total, also
\* with {C} pips in the deck and with multi-colour lands whose colours are
\* not among the pip colours.
C20_BridgeSlots ==
    (/\ Calculated
     /\ analysis # None
     /\ \E field \in {"white", "blue", "black", "red", "green"} :
           analysis.pip_breakdown[field] > 0
     /\ deck.target_lands >= dual_land_count(deck))
    => (/\ ~mana_base.panicked
        /\ dual_land_count(deck)
              = SumFn(land_groups(deck_list), DOMAIN land_groups(deck_list))
        /\ TotalBasics = deck.target_lands - dual_land_count(deck))

-----------------------------------------------------------------------------
(* Properties of the free functions *)

\* C17: pip-intensity analysis.  analyze_pip_intensity returns one entry per
\* colour of deck.colors, ordered by intensity non-increasing, whose warning
\* is the "very high" text iff intensity >= 5, the "high" text iff
\* 3 <= intensity < 5 and absent iff intensity < 3 (a colour missing from
\* pip_intensity counts as 0); get_intensity_recommendations returns exactly
\* the present warnings, in that order.
C17_PipIntensity ==
    (phase = "returned" /\ "deck" \in DOMAIN call)
    => LET analyses == returned.analyses
           recs == returned.recommendations
           d == call.deck
           intensity(c) == IF c \in DOMAIN d.pip_intensity THEN d.pip_intensity[c] ELSE 0
           warned == {i \in DOMAIN analyses : analyses[i].warning # None}
       IN  /\ Len(analyses) = Len(d.colors)
           /\ \A n \in 0..MaxWarnedIntensity + 1 :
                 Cardinality({i \in DOMAIN analyses : analyses[i].intensity = n})
                    = Cardinality({i \in DOMAIN d.colors : intensity(d.colors[i]) = n})
           /\ \A i, j \in DOMAIN analyses :
                 i < j => analyses[i].intensity >= analyses[j].intensity
           /\ \A i \in DOMAIN analyses :
                 LET a == analyses[i]
                 IN  /\ (a.warning = None) <=> (a.intensity < 3)
                     /\ a.warning # None =>
                           /\ a.warning.intensity = a.intensity
                           /\ intensity(a.warning.color) = a.intensity
                           /\ (a.warning.wording = "very high") <=> (a.intensity >= 5)
                           /\ (a.warning.wording = "high") <=> (a.intensity < 5)
           /\ Len(recs) = Cardinality(warned)
           /\ \A k \in DOMAIN recs :
                 \E i \in warned :
                    /\ Cardinality({j \in warned : j < i}) = k - 1
                    /\ recs[k] = analyses[i].warning

\* Witness of C17: the second colour of the deck is the more intensive one
\* and comes first, with the "very high" warning, before a "high" one.
C17_Witness ==
    /\ phase = "returned"
    /\ "deck" \in DOMAIN call
    /\ Len(call.deck.colors) = 2
    /\ Get(call.deck.pip_intensity, call.deck.colors[1]) \in {3, 4}
    /\ Get(call.deck.pip_intensity, call.deck.colors[2]) >= 5
    /\ Len(returned.recommendations) = 2
    /\ returned.recommendations[1].color = call.deck.colors[2]
    /\ returned.recommendations[1].wording = "very high"
    /\ returned.recommendations[2].wording = "high"

\* C22: type-derived themes.  detect_card_themes emits Equipment (resp.
\* Auras) with confidence 1.0 and role hint Support exactly when a type line
\* of the card contains that word, and emits Artifacts (resp. Enchantments,
\* Lands) with confidence 0.5 and no role hint exactly when a type line
\* contains that type word and the combined oracle text contains the same
\* word case-insensitively, whatever other types the card has.
C22_TypeThemes ==
    (phase = "returned" /\ DOMAIN call = {"card"})
    => LET card == call.card
           emitted(kind) == {i \in DOMAIN returned : returned[i].theme = Theme(kind)}
           typed(word) == \E i \in DOMAIN card.type_line : card.type_line[i] = word
           text(word) == contains(card.oracle_text, <<word>>)
           by_type(kind, word) ==
               /\ (emitted(kind) # {}) <=> typed(word)
               /\ \A i \in emitted(kind) :
                     /\ returned[i].confidence = [num |-> 1, den |-> 1]
                     /\ returned[i].role_hint = "Support"
           by_type_and_text(kind, word, lower) ==
               /\ (emitted(kind) # {}) <=> (typed(word) /\ text(lower))
               /\ \A i \in emitted(kind) :
                     /\ returned[i].confidence = [num |-> 1, den |-> 2]
                     /\ returned[i].role_hint = None
       IN  /\ by_type("Equipment", "Equipment")
           /\ by_type("Auras", "Aura")
           /\ by_type_and_text("Artifacts", "Artifact", "artifact")
           /\ by_type_and_text("Enchantments", "Enchantment", "enchantment")
           /\ by_type_and_text("Lands", "Land", "land")

\* C29: Lifegain has no reachable Payoff role.  For every card,
\* classify_card_role(card, Lifegain) returns Enabler or Support and never
\* Payoff: a text containing "whenever you gain life" also contains "gain"
\* and "life" and is caught by the enabler test first.
C29_LifegainNoPayoff ==
    (phase = "returned" /\ "theme" \in DOMAIN call /\ call.theme = Theme("Lifegain"))
    => /\ returned \in {"Enabler", "Support"}
       /\ contains(call.card.oracle_text, <<"whenever", "you", "gain", "life">>)
             => returned = "Enabler"

\* Witness of C29: a card that reads "whenever you gain life, draw a card."
\* is classified as an Enabler of Lifegain.
C29_Witness ==
    /\ phase = "returned"
    /\ "theme" \in DOMAIN call
    /\ call.theme = Theme("Lifegain")
    /\ call.card.oracle_text
          = <<<<"whenever", "you", "gain", "life,", "draw", "a", "card.">>>>
    /\ returned = "Enabler"

\* C30: cache read-your-writes.  After set(key, card) on a CardCache, a get
\* with the same key (compared case-insensitively) on that same CardCache
\* within 24 hours returns that card, so a client that has just fetched and
\* cached a card does not fetch it again on the next lookup.
C30_ReadYourWrites ==
    [][(/\ phase = "cache"
        /\ now' = now
        /\ call' # None
        /\ call'.op \in {"get", "search_card"}
        /\ to_lowercase(call'.key) \in DOMAIN cache_sets
        /\ now - cache_sets[to_lowercase(call'.key)].timestamp <= CACHE_DURATION_HOURS)
       => IF call'.op = "get"
          THEN returned' = cache_sets[to_lowercase(call'.key)].card
          ELSE /\ ~returned'.fetched
               /\ returned'.card = cache_sets[to_lowercase(call'.key)].card]_vars

\* C12: tribal threshold.  detect_tribal_themes returns Tribal(t) for exactly
\* the creature types t with count >= 8 or count / total_creatures >= 0.30
\* (the percentage being 0 when total_creatures is 0), ordered by count
\* non-increasing; 8 of 50 is included and 5 of 40 is excluded.
C12_TribalThreshold ==
    (phase = "returned" /\ "creature_type_counts" \in DOMAIN call)
    => LET counts == call.creature_type_counts
           total == call.total_creatures
           percent(t) == IF total = 0 THEN 0 ELSE (counts[t] * 100) \div total
           included == {returned[i].theme : i \in DOMAIN returned}
       IN  /\ \A t \in DOMAIN counts :
                 Tribal(t) \in included <=> (counts[t] >= 8 \/ percent(t) >= 30)
           /\ \A i, k \in DOMAIN returned :
                 /\ i < k => returned[i].count >= returned[k].count
                 /\ i # k => returned[i].theme # returned[k].theme
                 /\ returned[i].count = counts[returned[i].theme.arg]
           /\ \A t \in DOMAIN counts :
                 /\ (counts[t] = 8 /\ total = 50) => Tribal(t) \in included
                 /\ (counts[t] = 5 /\ total = 40) => Tribal(t) \notin included

\* Witness of C12: of 40 creatures, the 8 Elves (20%) make a tribe by count
\* alone and the 5 Goblins (12.5%) make none.
C12_Witness ==
    /\ phase = "returned"
    /\ call = [creature_type_counts |-> [t \in {"Elf", "Goblin"} |->
                                            IF t = "Elf" THEN 8 ELSE 5],
               total_creatures |-> 40]
    /\ returned = <<[theme |-> Tribal("Elf"), count |-> 8]>>

=============================================================================
